---- MODULE Spec2Model ----
(***************************************************************************)
(* Model of the scholar-capital citations view: the graph builders and     *)
(* mutators of lib/utils/graph-transformer.ts, the page component          *)
(* app/citations/page.tsx that owns the current graph value and the async  *)
(* handlers that commit to it, and the part of the graph component         *)
(* (ScholarGraph) that guards co-author expansion, keeps the selection and *)
(* brings the node elements of the rendering surface up to date.           *)
(*                                                                         *)
(* Strings are sequences of characters.  Every node id starts with one of  *)
(* the four literal prefixes "researcher-", "paper-", "placeholder-",      *)
(* "coauthor-"; none is a prefix of another, so a prefix is kept as one    *)
(* element and String.prototype.startsWith is sequence-prefix.             *)
(***************************************************************************)
EXTENDS Naturals, Integers, Sequences, FiniteSets, TLC

----------------------------------------------------------------------------
(* Bounds of the model *)

\* placeholders created per expansion (the page passes 20)
PlaceholderCount == 2
\* the most articles an author payload carries
MaxArticles == 3
\* the most articles the payload of the viewed profile carries
MaxProfile == 2
\* co-author expansions the user starts in one run
MaxExpansions == 2
\* paper taps that start or join a citation-detail request in one run
MaxClicks == 1
\* papers shown at first and added by "+N more" (the page uses 20)
PageSize == 1
\* events (user gestures, responses, timer callbacks) handled in one run
MaxEvents == 9
\* characters of a citation count string
MaxCountLen == 2
\* characters of an authors string
MaxAuthorsLen == 3
\* characters of a position seed, and the largest index of a placed node
MaxSeedLen == 3
MaxIndex == 2
\* drag events of the pointer in one run
MaxDrags == 2
\* distinct co-authors expanded from one source paper
MaxSiblings == 7
\* paper taps that start or join a citation-detail request, for the run of
\* the request map on its own
MaxTaps == 3
\* fetchAuthorData calls in one behaviour of the viewed-profile specification
MaxViews == 3
\* calls of the functions that add papers, for one article on its own
MaxIdCalls == 3

----------------------------------------------------------------------------
(* Strings *)

Str(c) == <<c>>
EmptyStr == << >>
Digit == <<"0", "1", "2", "3", "4", "5", "6", "7", "8", "9">>

RECURSIVE NumToString(_)
\* Number.prototype.toString as a template literal applies it to an index
NumToString(i) == IF i < 10 THEN <<Digit[i + 1]>>
                  ELSE NumToString(i \div 10) \o <<Digit[(i % 10) + 1]>>

\* s.startsWith(p)
StartsWith(s, p) == /\ Len(s) >= Len(p)
                    /\ SubSeq(s, 1, Len(p)) = p

\* a || b on strings: the empty string and undefined are both falsy
OrElse(a, b) == IF a # EmptyStr THEN a ELSE b

ResearcherPrefix == <<"researcher-">>
PaperPrefix == <<"paper-">>
PlaceholderPrefix == <<"placeholder-">>

ResearcherId(name) == ResearcherPrefix \o name
PlaceholderId(name, i) == PlaceholderPrefix \o name \o <<"-">> \o NumToString(i)
\* the pattern updateResearcherPapers searches for
PlaceholderPattern(name) == PlaceholderPrefix \o name \o <<"-">>
\* the id transformAuthorToGraph and addResearcherToGraph give a paper
PaperId(article) ==
    PaperPrefix \o OrElse(article.citation_id, OrElse(article.id, article.title))
\* an id made from the title alone
TitlePaperId(article) == PaperPrefix \o article.title
\* the id addMorePapers gives a paper
LoadMorePaperId(article) ==
    PaperPrefix \o OrElse(article.citation_id, OrElse(article.id, article.title))
\* the id updateResearcherPapers gives the paper put in a placeholder's slot
ResolvedPaperId(article) ==
    PaperPrefix \o OrElse(article.citation_id, OrElse(article.id, article.title))

----------------------------------------------------------------------------
(* Sequence helpers (Array.prototype methods) *)

Range(s) == {s[i] : i \in DOMAIN s}

\* arr.slice(from, to) with 0-based half-open indices
Slice(s, from, to) ==
    LET hi == IF to < Len(s) THEN to ELSE Len(s)
    IN  IF from >= hi THEN << >> ELSE SubSeq(s, from + 1, hi)

\* nodes.filter(n => n.type === 'paper').length
RECURSIVE CountPapers(_)
CountPapers(nodes) ==
    IF nodes = << >> THEN 0
    ELSE (IF Head(nodes).type = "paper" THEN 1 ELSE 0) + CountPapers(Tail(nodes))

\* indices (1-based, ascending) of the nodes whose id starts with pattern
RECURSIVE IndicesFrom(_, _, _)
IndicesFrom(nodes, i, pattern) ==
    IF i > Len(nodes) THEN << >>
    ELSE (IF StartsWith(nodes[i].id, pattern) THEN <<i>> ELSE << >>)
         \o IndicesFrom(nodes, i + 1, pattern)

\* s with the element at 1-based position i removed (splice(idx, 1))
RemoveAt(s, i) == SubSeq(s, 1, i - 1) \o SubSeq(s, i + 1, Len(s))

\* arr.find(n => n.id === id): the first match
HasId(nodes, id) == \E i \in DOMAIN nodes : nodes[i].id = id
FirstIndex(nodes, id) == CHOOSE i \in DOMAIN nodes :
                             /\ nodes[i].id = id
                             /\ \A j \in 1..(i - 1) : nodes[j].id # id

----------------------------------------------------------------------------
(* Positions.  x and y are the floating-point results of cos/sin/atan2     *)
(* expressions; a position is kept as the expression that produced it,     *)
(* <<tag, centre, number, seed>>, so two positions are equal in the model  *)
(* exactly when the code computed them from the same arguments.            *)

NoPos == <<"undefined", << >>, 0, << >>>>
Origin == <<"xy", << >>, 0, << >>>>
Fallback == <<"xy", << >>, 800, << >>>>
\* sourceNode + (cos, sin)(atan2(sy, sx) + k * PI / 3) * 600: cos and sin
\* have period 2 * PI, so k and k + 6 give one point (the doubles differ by
\* rounding in the last places at most)
Spoke(sourcePos, k) == <<"spoke", sourcePos, k % 6, << >>>>

\* generateRadialPosition: angle and distance depend on the seed's hash and
\* the index only (totalNodes is not read); x, y also on the centre
generateRadialPosition(seed, index, totalNodes, center) ==
    [ angle |-> <<"angle", << >>, index, seed>>,
      distance |-> <<"distance", << >>, 0, seed>>,
      pos |-> <<"radial", center, index, seed>> ]

----------------------------------------------------------------------------
(* Graph values: GraphNode, GraphLink, GraphData of lib/types/graph.       *)
(* A node keeps the fields the handlers read or write.  obj is the         *)
(* identity of the JavaScript object: array copies ([...nodes]) share the  *)
(* node objects, an object literal or spread makes a new one.              *)

Node(id, type, pos, dist, angle, loading, authors, cid, venue, obj) ==
    [ id |-> id, type |-> type, pos |-> pos,
      layoutDistance |-> dist, initialAngle |-> angle,
      loading |-> loading, authors |-> authors,
      citation_id |-> cid, venue |-> venue, obj |-> obj ]

Link(source, target, type, value) ==
    [ source |-> source, target |-> target, type |-> type, value |-> value ]

Graph(nodes, links) == [ nodes |-> nodes, links |-> links ]

\* graphData before the first load is null; a loaded graph always holds nodes
NoGraph == Graph(<< >>, << >>)

NoAngle == <<"undefined", << >>, 0, << >>>>

\* the largest object identity in a graph, to number the next object made
RECURSIVE MaxObj(_)
MaxObj(nodes) == IF nodes = << >> THEN 0
                 ELSE LET m == MaxObj(Tail(nodes))
                      IN  IF Head(nodes).obj > m THEN Head(nodes).obj ELSE m

\* Array.prototype.sort with (a, b) => yearB - yearA: stable, newest first.
\* parseInt(String(year)) of an absent year counts as 0.
RECURSIVE InsertByYear(_, _)
InsertByYear(sorted, a) ==
    IF sorted = << >> THEN <<a>>
    ELSE IF Head(sorted).year >= a.year
         THEN <<Head(sorted)>> \o InsertByYear(Tail(sorted), a)
         ELSE <<a>> \o sorted

RECURSIVE SortByYearDesc(_)
SortByYearDesc(articles) ==
    IF articles = << >> THEN << >>
    ELSE InsertByYear(SortByYearDesc(SubSeq(articles, 1, Len(articles) - 1)),
                      articles[Len(articles)])

\* article.authors mapped to node metadata when it is an array
AuthorsOf(article) ==
    [i \in DOMAIN article.authors |->
        [name |-> article.authors[i].name, id |-> article.authors[i].id]]

----------------------------------------------------------------------------
(* transformAuthorToGraph *)

RECURSIVE TransformPapers(_, _, _, _, _, _, _)
TransformPapers(papers, i, researcherId, total, nodes, links, o) ==
    IF i > Len(papers) THEN Graph(nodes, links)
    ELSE LET article == papers[i]
             paperId == PaperId(article)
             radialPos == generateRadialPosition(paperId, i - 1, total, Origin)
             node == Node(paperId, "paper", radialPos.pos, radialPos.distance,
                          radialPos.angle, FALSE, AuthorsOf(article),
                          article.citation_id, article.publication,
                          o)
         IN  TransformPapers(papers, i + 1, researcherId, total,
                             Append(nodes, node),
                             Append(links, Link(researcherId, paperId, "authored", 2)),
                             o + 1)

transformAuthorToGraph(data, maxPapers, o) ==
    LET researcherId == ResearcherId(data.author)
        researcher == Node(researcherId, "researcher", NoPos, NoAngle, NoAngle,
                           FALSE, << >>, EmptyStr, EmptyStr, o)
        papers == Slice(data.articles, 0, maxPapers)
    IN  TransformPapers(papers, 1, researcherId, Len(papers), <<researcher>>, << >>,
                        o + 1)

----------------------------------------------------------------------------
(* addMorePapers *)

RECURSIVE AddPapers(_, _, _, _, _, _)
AddPapers(additionalPapers, i, researcherId, nodes, links, o) ==
    IF i > Len(additionalPapers) THEN Graph(nodes, links)
    ELSE LET article == additionalPapers[i]
             paperId == LoadMorePaperId(article)
         IN  IF HasId(nodes, paperId)
             THEN AddPapers(additionalPapers, i + 1, researcherId, nodes, links, o)
             ELSE LET currentPaperCount == CountPapers(nodes)
                      radialPos == generateRadialPosition(paperId, currentPaperCount,
                                       Len(additionalPapers) + currentPaperCount, Origin)
                      \* metadata holds no authors, venue or citation_id here
                      node == Node(paperId, "paper", radialPos.pos,
                                   radialPos.distance, radialPos.angle, FALSE,
                                   << >>, EmptyStr, EmptyStr, o)
                  IN  AddPapers(additionalPapers, i + 1, researcherId,
                                Append(nodes, node),
                                Append(links, Link(researcherId, paperId, "authored", 2)),
                                o + 1)

addMorePapers(currentGraph, researcherId, additionalPapers, o) ==
    AddPapers(additionalPapers, 1, researcherId,
              currentGraph.nodes, currentGraph.links, o)

----------------------------------------------------------------------------
(* addResearcherPlaceholders *)

\* links between the source paper and any node whose id starts "researcher-"
RECURSIVE CountResearcherLinks(_, _)
CountResearcherLinks(links, sourcePaperId) ==
    IF links = << >> THEN 0
    ELSE LET l == Head(links)
             hit == \/ (l.source = sourcePaperId /\ StartsWith(l.target, ResearcherPrefix))
                    \/ (l.target = sourcePaperId /\ StartsWith(l.source, ResearcherPrefix))
         IN  (IF hit THEN 1 ELSE 0) + CountResearcherLinks(Tail(links), sourcePaperId)

\* step 1: where the new researcher goes
ResearcherPosition(nodes, links, sourcePaperId) ==
    IF sourcePaperId = EmptyStr THEN Origin
    ELSE IF /\ HasId(nodes, sourcePaperId)
            /\ nodes[FirstIndex(nodes, sourcePaperId)].pos # NoPos
         THEN LET sourceNode == nodes[FirstIndex(nodes, sourcePaperId)]
                  neighborCount == CountResearcherLinks(links, sourcePaperId)
              IN  Spoke(sourceNode.pos, neighborCount + 1)
         ELSE Fallback

\* some link joins a and b, in either direction
LinkExists(links, a, b) ==
    \E j \in DOMAIN links : \/ (links[j].source = a /\ links[j].target = b)
                            \/ (links[j].source = b /\ links[j].target = a)

\* step 4: the placeholder nodes and their links, pushed without any check
RECURSIVE PushPlaceholders(_, _, _, _, _, _, _)
PushPlaceholders(i, count, researcherName, center, nodes, links, o) ==
    IF i >= count THEN Graph(nodes, links)
    ELSE LET placeholderId == PlaceholderId(researcherName, i)
             radialPos == generateRadialPosition(placeholderId, i, count, center)
             node == Node(placeholderId, "paper", radialPos.pos, radialPos.distance,
                          radialPos.angle, TRUE, << >>, EmptyStr, EmptyStr, o)
         IN  PushPlaceholders(i + 1, count, researcherName, center,
                 Append(nodes, node),
                 Append(links, Link(ResearcherId(researcherName), placeholderId,
                                    "authored", 1)),
                 o + 1)

addResearcherPlaceholders(currentGraph, researcherName, sourcePaperId, count, o) ==
    LET center == ResearcherPosition(currentGraph.nodes, currentGraph.links,
                                     sourcePaperId)
        researcherId == ResearcherId(researcherName)
        isNew == ~HasId(currentGraph.nodes, researcherId)
        nodes2 == IF isNew
                  THEN Append(currentGraph.nodes,
                              Node(researcherId, "researcher", center, NoAngle,
                                   NoAngle, TRUE, << >>, EmptyStr, EmptyStr, o))
                  ELSE currentGraph.nodes
        links3 == IF /\ sourcePaperId # EmptyStr
                     /\ ~LinkExists(currentGraph.links, researcherId, sourcePaperId)
                  THEN Append(currentGraph.links,
                              Link(researcherId, sourcePaperId, "authored", 2))
                  ELSE currentGraph.links
    IN  PushPlaceholders(0, count, researcherName, center, nodes2, links3,
                         IF isNew THEN o + 1 ELSE o)

----------------------------------------------------------------------------
(* updateResearcherPapers *)

\* step 1: the researcher node is replaced by a copy whose loading flag is off
UpdateResearcherNode(nodes, researcherId, o) ==
    IF HasId(nodes, researcherId)
    THEN LET k == FirstIndex(nodes, researcherId)
         IN  [nodes EXCEPT ![k] = [@ EXCEPT !.loading = FALSE, !.obj = o]]
    ELSE nodes

\* the in-place loop over newLinks: every reference to oldId becomes paperId
RewriteLinks(links, oldId, paperId) ==
    [j \in DOMAIN links |->
        LET l1 == IF links[j].target = oldId
                  THEN [links[j] EXCEPT !.target = paperId] ELSE links[j]
        IN  IF l1.source = oldId THEN [l1 EXCEPT !.source = paperId] ELSE l1]

\* a paper node that takes a fresh radial position instead of the slot's
PaperAtOwnPosition(article, placeholderNode, o) ==
    LET radialPos == generateRadialPosition(PaperId(article), 0, 1, Origin)
    IN  Node(PaperId(article), "paper", radialPos.pos, radialPos.distance,
             radialPos.angle, FALSE, AuthorsOf(article), article.citation_id,
             article.publication, o)

\* the real paper put in a placeholder's slot: x, y and the layout metadata
\* are the placeholder's
PaperInSlot(article, placeholderNode, o) ==
    Node(ResolvedPaperId(article), "paper", placeholderNode.pos,
         placeholderNode.layoutDistance, placeholderNode.initialAngle,
         FALSE, AuthorsOf(article), article.citation_id, article.publication, o)

\* step 2: papers.forEach
RECURSIVE ReplacePlaceholders(_, _, _, _, _, _)
ReplacePlaceholders(papers, i, placeholderIndices, nodes, links, o) ==
    IF i > Len(papers) THEN Graph(nodes, links)
    ELSE IF i > Len(placeholderIndices)
         THEN ReplacePlaceholders(papers, i + 1, placeholderIndices, nodes, links, o)
         ELSE LET index == placeholderIndices[i]
                  placeholderNode == nodes[index]
                  article == papers[i]
              IN  ReplacePlaceholders(papers, i + 1, placeholderIndices,
                      [nodes EXCEPT ![index] = PaperInSlot(article, placeholderNode, o)],
                      RewriteLinks(links, placeholderNode.id, ResolvedPaperId(article)),
                      o + 1)

\* links.splice for every link that touches the removed node
RECURSIVE DropLinksOf(_, _)
DropLinksOf(links, nodeId) ==
    IF links = << >> THEN << >>
    ELSE (IF Head(links).source = nodeId \/ Head(links).target = nodeId
          THEN << >> ELSE <<Head(links)>>) \o DropLinksOf(Tail(links), nodeId)

\* the nodes are spliced out and their links are left behind
RECURSIVE RemoveNodesOnly(_, _, _, _)
RemoveNodesOnly(indicesToRemove, k, nodes, links) ==
    IF k < 1 THEN Graph(nodes, links)
    ELSE RemoveNodesOnly(indicesToRemove, k - 1,
                         RemoveAt(nodes, indicesToRemove[k]), links)

\* step 3: indicesToRemove, visited from the highest index down
RECURSIVE RemoveRemaining(_, _, _, _)
RemoveRemaining(indicesToRemove, k, nodes, links) ==
    IF k < 1 THEN Graph(nodes, links)
    ELSE LET idx == indicesToRemove[k]
             nodeIdToRemove == nodes[idx].id
         IN  RemoveRemaining(indicesToRemove, k - 1, RemoveAt(nodes, idx),
                             DropLinksOf(links, nodeIdToRemove))

\* the trailing articles instead of the leading ones
TrailingPapers(articles, count) ==
    IF Len(articles) <= count THEN articles
    ELSE SubSeq(articles, Len(articles) - count + 1, Len(articles))

\* researcherData.articles.slice(0, placeholderIndices.length)
PapersToPlace(articles, count) == Slice(articles, 0, count)

updateResearcherPapers(currentGraph, researcherData, placeholderResearcherName, o) ==
    LET researcherName == OrElse(placeholderResearcherName, researcherData.author)
        researcherId == ResearcherId(researcherName)
        nodes1 == UpdateResearcherNode(currentGraph.nodes, researcherId, o)
        placeholderIndices == IndicesFrom(nodes1, 1, PlaceholderPattern(researcherName))
        papers == PapersToPlace(researcherData.articles, Len(placeholderIndices))
        replaced == ReplacePlaceholders(papers, 1, placeholderIndices, nodes1,
                                        currentGraph.links, o + 1)
    IN  IF Len(papers) < Len(placeholderIndices)
        THEN LET indicesToRemove ==
                     SubSeq(placeholderIndices, Len(papers) + 1, Len(placeholderIndices))
             IN  RemoveRemaining(indicesToRemove, Len(indicesToRemove),
                                 replaced.nodes, replaced.links)
        ELSE replaced

----------------------------------------------------------------------------
(* Payloads the scholarly-metadata provider can return *)

MainName == Str("M")
NameA == Str("A")
\* a second co-author whose name starts with the first one's name and "-"
NameAB == <<"A", "-", "B">>
AuthorNames == {NameA, NameAB}

Author(name, id) == [name |-> name, id |-> id]

Article(cid, title, year, authors) ==
    [ citation_id |-> cid, id |-> EmptyStr, title |-> title, year |-> year,
      authors |-> authors, publication |-> Str("venue") ]

AllArticles ==
    << Article(Str("c1"), Str("T1"), 2, <<Author(NameA, Str("a1")), Author(NameAB, EmptyStr)>>),
       Article(EmptyStr, Str("T2"), 1, <<Author(NameAB, Str("a2"))>>),
       Article(Str("c3"), Str("T3"), 2, << >>),
       Article(Str("c4"), Str("T4"), 0, <<Author(NameA, EmptyStr)>>) >>

ArticlePool == SubSeq(AllArticles, 1,
                      IF MaxArticles < Len(AllArticles) THEN MaxArticles
                      ELSE Len(AllArticles))

\* the articles of the pool picked by the index set S, in pool order
RECURSIVE Pick(_, _)
Pick(S, i) == IF i > Len(ArticlePool) THEN << >>
              ELSE (IF i \in S THEN <<ArticlePool[i]>> ELSE << >>) \o Pick(S, i + 1)

ArticleLists == {Pick(S, 1) : S \in SUBSET (1..Len(ArticlePool))}

\* the article lists of the viewed profile: the leading articles of the pool
ProfileLists ==
    {SubSeq(ArticlePool, 1, n) :
        n \in 0..(IF MaxProfile < Len(ArticlePool) THEN MaxProfile ELSE Len(ArticlePool))}

\* an author response: author is the author record's name, empty when the
\* payload has no author record
AuthorPayload(author, articles) == [author |-> author, articles |-> articles]

\* a view_citation response: citation present or not, its authors string
\* split on commas (empty when absent), and the venue shown
CitationResponses ==
    { [citation |-> FALSE, authors |-> << >>, venue |-> EmptyStr],
      [citation |-> TRUE, authors |-> <<NameA>>, venue |-> Str("Unknown")] }

----------------------------------------------------------------------------
(* Citation counts.  A payload value is undefined, a number or a string;   *)
(* a number is an integer or NaN.                                          *)

Undefined == [type |-> "undefined", nan |-> FALSE, v |-> 0, s |-> << >>]
JsInt(n) == [type |-> "number", nan |-> FALSE, v |-> n, s |-> << >>]
NaN == [type |-> "number", nan |-> TRUE, v |-> 0, s |-> << >>]
JsStr(s) == [type |-> "string", nan |-> FALSE, v |-> 0, s |-> s]

\* the condition of `if (x)`
Truthy(x) == \/ x.type = "number" /\ ~x.nan /\ x.v # 0
             \/ x.type = "string" /\ x.s # << >>

IsDigit(c) == \E i \in DOMAIN Digit : Digit[i] = c
DigitValue(c) == (CHOOSE i \in DOMAIN Digit : Digit[i] = c) - 1

\* a count string handed to parseInt as it is
KeepCommas(s) == s

\* value.replace(/,/g, '')
RemoveCommas(s) == SelectSeq(s, LAMBDA c : c # ",")

\* the leading white space parseInt skips
RECURSIVE SkipSpace(_)
SkipSpace(s) == IF s # << >> /\ Head(s) = " " THEN SkipSpace(Tail(s)) ELSE s

\* the value of the longest run of digits that starts at position i
RECURSIVE ReadDigits(_, _, _)
ReadDigits(s, i, acc) ==
    IF i <= Len(s) /\ IsDigit(s[i])
    THEN ReadDigits(s, i + 1, acc * 10 + DigitValue(s[i]))
    ELSE acc

\* parseInt(s, 10): white space is skipped, a sign is read, then digits up
\* to the first character that is none; NaN when there is no digit
parseInt(str) ==
    LET s == SkipSpace(str)
        signed == s # << >> /\ Head(s) \in {"-", "+"}
        first == IF signed THEN 2 ELSE 1
        n == ReadDigits(s, first, 0)
    IN  IF first > Len(s) \/ ~IsDigit(s[first]) THEN NaN
        ELSE JsInt(IF signed /\ Head(s) = "-" THEN 0 - n ELSE n)

\* cited_by.value as a count: a string is parsed, a number is taken as it is
CountOfValue(value) ==
    IF value.type = "string" THEN parseInt(RemoveCommas(value.s))
    ELSE IF value.type = "number" THEN value
    ELSE JsInt(0)

\* the citation count fields of an article: inline_links.cited_by.total,
\* cited_by.total and cited_by.value
CitedBy(inlineTotal, total, value) ==
    [inlineTotal |-> inlineTotal, total |-> total, value |-> value]
NoCitedBy == CitedBy(Undefined, Undefined, Undefined)

\* the citation count transformAuthorToGraph stores on a paper node
CountInBuild(cb) ==
    IF Truthy(cb.inlineTotal) THEN cb.inlineTotal
    ELSE IF Truthy(cb.total) THEN cb.total
    ELSE IF cb.value # Undefined THEN CountOfValue(cb.value)
    ELSE JsInt(0)

\* the citation count addMorePapers stores on a paper node
CountInLoadMore(cb) ==
    IF cb.value # Undefined THEN CountOfValue(cb.value) ELSE JsInt(0)

\* the characters of the count strings tried, and the count strings: all up
\* to MaxCountLen characters, and "12,345"
CountChars == {"1", "2", "5", ",", "x", "-", " "}
TwelveThousand == <<"1", "2", ",", "3", "4", "5">>
CountStrings ==
    UNION {[1..n -> CountChars] : n \in 0..MaxCountLen} \cup {TwelveThousand}
CountNumbers == {Undefined, JsInt(0), JsInt(7)}
CitedByShapes ==
    {CitedBy(i, t, v) : i \in CountNumbers, t \in CountNumbers,
                        v \in CountNumbers \cup {JsStr(s) : s \in CountStrings}}

----------------------------------------------------------------------------
(* Author lists.  The authors field of an article is absent, an array of   *)
(* author records or one string, a sequence of characters.                 *)

JsArray(a) == [type |-> "array", items |-> a]

\* s.split(sep) from position i on; cur is the piece being read
RECURSIVE SplitFrom(_, _, _, _)
SplitFrom(s, sep, i, cur) ==
    IF i > Len(s) THEN <<cur>>
    ELSE IF i + Len(sep) - 1 <= Len(s) /\ SubSeq(s, i, i + Len(sep) - 1) = sep
         THEN <<cur>> \o SplitFrom(s, sep, i + Len(sep), << >>)
         ELSE SplitFrom(s, sep, i + 1, Append(cur, s[i]))

Split(s, sep) == SplitFrom(s, sep, 1, << >>)

\* s.trim(): white space taken off both ends
RECURSIVE TrimEnd(_)
TrimEnd(s) == IF s # << >> /\ s[Len(s)] = " " THEN TrimEnd(SubSeq(s, 1, Len(s) - 1))
              ELSE s
Trim(s) == TrimEnd(SkipSpace(s))

\* names.map(name => ({ name: name.trim() }))
TrimmedNames(names) == [i \in DOMAIN names |-> Author(Trim(names[i]), EmptyStr)]

\* authors.map(a => ({ name: a.name, id: a.id }))
AuthorRecords(a) == [i \in DOMAIN a |-> Author(a[i].name, a[i].id)]

VenueSeparator == <<" ", "-", " ">>
Comma == <<",">>

\* the part of an authors string read as names: what precedes " - "
BeforeVenue(s) == Split(s, VenueSeparator)[1]

\* metadata.authors as transformAuthorToGraph builds it
AuthorsInBuild(authors) ==
    IF authors.type = "array" THEN AuthorRecords(authors.items)
    ELSE IF authors.type = "string"
         THEN TrimmedNames(Split(BeforeVenue(authors.s), Comma))
         ELSE << >>

\* metadata.authors as addResearcherToGraph builds it
AuthorsInAddResearcher(authors) ==
    IF authors.type = "string" THEN TrimmedNames(Split(authors.s, Comma))
    ELSE << >>

\* metadata.authors as updateResearcherPapers builds it
AuthorsInUpdate(authors) ==
    IF authors.type = "array" THEN AuthorRecords(authors.items) ELSE << >>

\* metadata.authors of the article's node, once a node has been made
Made(list) == [made |-> TRUE, list |-> list]
NotMade == [made |-> FALSE, list |-> << >>]

\* the authors values tried: absent, arrays, every string of up to
\* MaxAuthorsLen characters, and "J Smith, K Doe - Nature, 2020"
AuthorsChars == {"a", ",", " ", "-"}
SmithDoeNature ==
    <<"J", " ", "S", "m", "i", "t", "h", ",", " ", "K", " ", "D", "o", "e",
      " ", "-", " ", "N", "a", "t", "u", "r", "e", ",", " ", "2", "0", "2", "0">>
JSmith == <<"J", " ", "S", "m", "i", "t", "h">>
KDoe == <<"K", " ", "D", "o", "e">>
AuthorsStrings ==
    UNION {[1..n -> AuthorsChars] : n \in 0..MaxAuthorsLen} \cup {SmithDoeNature}
AuthorsArrays ==
    { << >>, <<Author(JSmith, Str("a1"))>>,
      <<Author(JSmith, Str("a1")), Author(KDoe, EmptyStr)>> }
AuthorsValues ==
    {Undefined} \cup {JsStr(s) : s \in AuthorsStrings}
                \cup {JsArray(a) : a \in AuthorsArrays}

----------------------------------------------------------------------------
(* State *)

\* the update effect did not run
NotRun == "none"

\* no node is held by the pointer
NoGrab == ""
\* the modifier keys of a pointer event; no drag event yet
PointerEvent(ctrl, meta, shift, alt) ==
    [fired |-> TRUE, ctrlKey |-> ctrl, metaKey |-> meta, shiftKey |-> shift,
     altKey |-> alt]
NoEvent ==
    [fired |-> FALSE, ctrlKey |-> FALSE, metaKey |-> FALSE, shiftKey |-> FALSE,
     altKey |-> FALSE]

VARIABLES
    graphData,       \* page: the current graph value (NoGraph while null)
    authorData,      \* page: the sorted author payload of the viewed profile
    visiblePapers,   \* page: papers shown
    loading,         \* page: initial load in progress
    error,           \* page: modal error state ("" when null)
    initFetch,       \* page: fetchAuthorData awaits its response
    expansions,      \* handleExpandResearcher calls awaiting a response
    clicks,          \* handleNodeClick calls awaiting citation details
    citationCache,   \* page: citationCache ref, citation id -> response
    selectedNode,    \* graph component: the node shown in the drawer
    isExpandingRef,  \* graph component: the in-flight flag
    cyNodes,         \* graph component: the node data held by the surface
    cyEdges,         \* graph component: the edge elements of the surface
    cyPosition,      \* graph component: node id -> position of its element
    scenario,        \* ghost: the branch the update effect took in this step
    timers,          \* graph component: pending setTimeout callbacks
    nextObj,         \* identity of the next object created
    nExpansions,     \* expansions accepted so far
    nClicks,         \* citation-detail waits started so far
    resolved,        \* ghost: the author names whose author fetch has answered ok
    unmounted,       \* the view has been navigated away from
    citedBy,         \* the citation count fields of an article of a payload
    citationCount,   \* metadata.citationCount of the node made from it
    articleAuthors,  \* the authors field of an article of a payload
    authorsList,     \* metadata.authors of the node made from it
    positionArgs,    \* the arguments of generateRadialPosition
    positions,       \* what its calls with these arguments returned, in order
    nodePosition,    \* surface: node id -> position of the element
    grabbed,         \* surface: the node the pointer holds ("" when none)
    dragNodes,       \* handleCyInit: the papers that move with the grabbed node
    initialPositions,\* handleCyInit: their offsets from it at grab
    originalEvent,   \* the pointer event of the drag event handled last
    positionAtGrab,  \* ghost: nodePosition when the node was grabbed
    positionBefore,  \* ghost: nodePosition before the drag event handled last
    nDrags,          \* drag events handled so far
    siblingGraph,    \* the graph addResearcherPlaceholders is applied to
    siblingSource,   \* its sourcePaperId
    siblings,        \* the researcher names it was called with, in order
    userId,          \* page: the user search parameter of the last render
    authorFetches,   \* fetchAuthorData calls awaiting their response
    viewedGraph,     \* the graph value these calls set (NoGraph while null)
    viewedError,     \* the error state these calls set ("" when null)
    nViews,          \* fetchAuthorData calls started so far
    idArticle,       \* an article of the payloads
    idGraph,         \* the graph the functions that add papers are applied to
    idCalls,         \* the functions it was given to, in order
    nEvents,         \* events handled so far
    last             \* the operation just performed, for stating properties

\* the state of the page and of the graph component
pageVars == << graphData, authorData, visiblePapers, loading, error, initFetch,
               expansions, clicks, citationCache, selectedNode, isExpandingRef,
               cyNodes, cyEdges, cyPosition, scenario, timers, nextObj, nExpansions, nClicks, resolved,
               unmounted, nEvents >>

\* the inputs and results of the functions that are run on their own
countVars == << citedBy, citationCount >>
authorsVars == << articleAuthors, authorsList >>
positionVars == << positionArgs, positions >>
dragVars == << nodePosition, grabbed, dragNodes, initialPositions, originalEvent,
               positionAtGrab, positionBefore, nDrags >>
siblingVars == << siblingGraph, siblingSource, siblings >>
viewVars == << userId, authorFetches, viewedGraph, viewedError, nViews >>
idVars == << idArticle, idGraph, idCalls >>
moreVars == << siblingVars, viewVars, idVars >>
funVars == << countVars, authorsVars, positionVars, dragVars, moreVars >>

vars == << pageVars, funVars, last >>

\* pending timers: a count per callback, for the swap batch (one delay, so
\* first set, first fired) the queue of the diffs the callbacks closed over,
\* the placeholder ids of the interval pulseIntervalRef holds ({} when it is
\* null), and the intervals the window runs, each by the placeholder ids its
\* callback closed over, in the order setInterval made them
NoTimers == [drawer |-> 0, swap |-> << >>, fadeInDone |-> 0, pulse |-> {},
             intervals |-> << >>]
SetTimer(ts, kind) == [ts EXCEPT ![kind] = @ + 1]
ClearTimer(ts, kind) == [ts EXCEPT ![kind] = @ - 1]

NoNode == Node(EmptyStr, "none", NoPos, NoAngle, NoAngle, FALSE, << >>,
               EmptyStr, EmptyStr, 0)
NoData == AuthorPayload(EmptyStr, << >>)

\* what the last event did: the handler (op), the researcher or node it was
\* about, the graph that was current when it committed, the graph value it
\* computed from (its closure's snapshot), the articles it was given and the
\* graph it committed
Op(op, name, current, before, articles, after) ==
    [ op |-> op, name |-> name, current |-> current, before |-> before,
      articles |-> articles, after |-> after ]

\* an event that commits no graph
Idle == Op("idle", EmptyStr, NoGraph, NoGraph, << >>, NoGraph)

\* a timer callback that ran after the unmount and called the surface
OnDisposed(what) == Op("onDisposed", Str(what), NoGraph, NoGraph, << >>, NoGraph)

\* one more event is handled
Tick == /\ nEvents < MaxEvents
        /\ nEvents' = nEvents + 1

\* the graph component is rendered only past the page's early returns
Mounted == /\ ~unmounted
           /\ ~loading
           /\ error = ""
           /\ graphData # NoGraph
           /\ authorData # NoData

\* the page after construction
PageInit ==
    /\ graphData = NoGraph
    /\ authorData = NoData
    /\ visiblePapers = PageSize
    /\ loading = TRUE
    /\ error = ""
    /\ initFetch = TRUE
    /\ expansions = << >>
    /\ clicks = << >>
    /\ citationCache = << >>
    /\ selectedNode = NoNode
    /\ isExpandingRef = FALSE
    /\ cyNodes = {}
    /\ cyEdges = {}
    /\ cyPosition = << >>
    /\ scenario = NotRun
    /\ timers = NoTimers
    /\ nextObj = 1
    /\ nExpansions = 0
    /\ nClicks = 0
    /\ resolved = {}
    /\ unmounted = FALSE
    /\ nEvents = 0

\* no article is handed to the functions that are run on their own
CountAtRest == citedBy = NoCitedBy /\ citationCount = Undefined
AuthorsAtRest == articleAuthors = Undefined /\ authorsList = NotMade
PositionAtRest == positionArgs = << >> /\ positions = << >>
DragAtRest ==
    /\ nodePosition = << >>
    /\ grabbed = NoGrab
    /\ dragNodes = {}
    /\ initialPositions = << >>
    /\ originalEvent = NoEvent
    /\ positionAtGrab = << >>
    /\ positionBefore = << >>
    /\ nDrags = 0
SiblingsAtRest ==
    siblingGraph = NoGraph /\ siblingSource = EmptyStr /\ siblings = << >>
ViewsAtRest ==
    /\ userId = EmptyStr
    /\ authorFetches = {}
    /\ viewedGraph = NoGraph
    /\ viewedError = ""
    /\ nViews = 0
IdsAtRest == idArticle = EmptyStr /\ idGraph = NoGraph /\ idCalls = << >>
MoreAtRest == SiblingsAtRest /\ ViewsAtRest /\ IdsAtRest
FunAtRest ==
    CountAtRest /\ AuthorsAtRest /\ PositionAtRest /\ DragAtRest /\ MoreAtRest

Init ==
    /\ PageInit
    /\ FunAtRest
    /\ last = Idle

----------------------------------------------------------------------------
(* The graph component's update effect.  It diffs the node ids of the      *)
(* previous data and the new data and brings the surface (the node data    *)
(* held by the Cytoscape elements, one element per id) up to date: at once *)
(* in scenarios A, C and D, in a timer callback 220 ms later in scenario B *)
(* (placeholders removed, none added), whose chain ends by clearing the    *)
(* in-flight flag.                                                         *)

NodeIds(g) == {g.nodes[i].id : i \in DOMAIN g.nodes}

\* a diff that is not keyed by id: every node of the new data counts as added
addedByIdentity(prev, data) ==
    SelectSeq(data.nodes, LAMBDA n : n \notin Range(prev.nodes))

addedNodes(prev, data) == SelectSeq(data.nodes, LAMBDA n : n.id \notin NodeIds(prev))
removedNodeIds(prev, data) == NodeIds(prev) \ NodeIds(data)
updatedNodes(prev, data) == SelectSeq(data.nodes, LAMBDA n : n.id \in NodeIds(prev))

\* `${l.source}-${l.target}`: the key of a link and the id of its element
LinkKey(l) == l.source \o <<"-">> \o l.target
LinkKeys(g) == {LinkKey(g.links[i]) : i \in DOMAIN g.links}
addedLinks(prev, data) ==
    SelectSeq(data.links, LAMBDA l : LinkKey(l) \notin LinkKeys(prev))
removedLinkKeys(prev, data) == LinkKeys(prev) \ LinkKeys(data)

\* no placeholder is ever seen among the removed ids
noRemovedPlaceholders(prev, data) == FALSE

hasNewPlaceholders(prev, data) ==
    \E id \in NodeIds(data) \ NodeIds(prev) : StartsWith(id, PlaceholderPrefix)
hasRemovedPlaceholders(prev, data) ==
    \E id \in removedNodeIds(prev, data) : StartsWith(id, PlaceholderPrefix)

\* ele.remove() for every id that has an element
CyRemove(cy, ids) == {n \in cy : n.id \notin ids}

\* cy.add(buildNodeElement(node)) in order: an id that already has an
\* element gets no second one
RECURSIVE CyAdd(_, _)
CyAdd(cy, nodes) ==
    IF nodes = << >> THEN cy
    ELSE CyAdd(IF \E m \in cy : m.id = Head(nodes).id THEN cy
               ELSE cy \cup {Head(nodes)},
               Tail(nodes))

\* ele.data('nodeData', node) in order, for every id that has an element
RECURSIVE CySetData(_, _)
CySetData(cy, nodes) ==
    IF nodes = << >> THEN cy
    ELSE CySetData(IF \E m \in cy : m.id = Head(nodes).id
                   THEN {m \in cy : m.id # Head(nodes).id} \cup {Head(nodes)}
                   ELSE cy,
                   Tail(nodes))

\* buildLinkElement(link)
buildLinkElement(l) == [id |-> LinkKey(l), source |-> l.source, target |-> l.target]

\* the ids that have an element on the surface
CyIds(cy, edges) == {n.id : n \in cy} \cup {e.id : e \in edges}

\* the edges left when the nodes of these ids and the edges of these keys are
\* removed: an edge goes with either of its ends
CyRemoveEdges(edges, ids, keys) ==
    {e \in edges : /\ e.id \notin keys \cup ids
                   /\ e.source \notin ids
                   /\ e.target \notin ids}

\* cy.add(buildLinkElement(link)) in order for every link whose key has no
\* element: the surface takes an edge only between two of its nodes
RECURSIVE CyAddEdges(_, _, _)
CyAddEdges(cy, edges, links) ==
    IF links = << >> THEN edges
    ELSE LET l == Head(links)
         IN  CyAddEdges(cy,
                        IF /\ LinkKey(l) \notin CyIds(cy, edges)
                           /\ \E n \in cy : n.id = l.source
                           /\ \E n \in cy : n.id = l.target
                        THEN edges \cup {buildLinkElement(l)}
                        ELSE edges,
                        Tail(links))

\* getNodePosition(node): x, y of the node; without them, the point at
\* metadata.initialAngle and metadata.layoutDistance (300 when it has none)
\* from the origin, or the origin for a researcher that has no angle, or no
\* position at all
getNodePosition(node) ==
    IF node.pos # NoPos THEN node.pos
    ELSE IF node.initialAngle # NoAngle
    THEN <<"polar", node.initialAngle, 0,
           IF node.layoutDistance # NoAngle THEN node.layoutDistance
           ELSE <<"xy", << >>, 300, << >>>> >>
    ELSE IF node.type = "researcher" THEN Origin ELSE NoPos

\* the positions of the elements after cy.add of these nodes: an element that
\* was there keeps its position, a new one is put where buildNodeElement says
\* (a placeholder of scenario A is kept as where its fly-out ends, which is
\* that position too)
CyPositions(pos, before, nodes) ==
    [id \in {n.id : n \in CyAdd(before, nodes)} |->
        IF \E n \in before : n.id = id THEN pos[id]
        ELSE getNodePosition(nodes[FirstIndex(nodes, id)])]

\* scenario A adds the first added researcher, then the added nodes that are
\* neither researchers nor placeholders, then the placeholders
EntranceNodes(added) ==
    LET researchers == SelectSeq(added, LAMBDA n : n.type = "researcher")
    IN  (IF researchers = << >> THEN << >> ELSE <<Head(researchers)>>)
        \o SelectSeq(added, LAMBDA n : /\ n.type # "researcher"
                                       /\ ~StartsWith(n.id, PlaceholderPrefix))
        \o SelectSeq(added, LAMBDA n : StartsWith(n.id, PlaceholderPrefix))

\* the diff a scenario B timer callback closed over
Batch(removed, added, updated, removedLinks, links) ==
    [removed |-> removed, added |-> added, updated |-> updated,
     removedLinks |-> removedLinks, addedLinks |-> links]

\* the swap batch: remove, add, then refresh the kept nodes' data
ApplyBatch(cy, b) == CySetData(CyAdd(CyRemove(cy, b.removed), b.added), b.updated)
\* the edges after the batch: the removed nodes' and keys' edges go, the added
\* links come once the added nodes are there
ApplyBatchEdges(cy, edges, b) ==
    CyAddEdges(CyAdd(CyRemove(cy, b.removed), b.added),
               CyRemoveEdges(edges, b.removed, b.removedLinks), b.addedLinks)

\* clearInterval(handle): the interval the handle names runs no more
clearInterval(intervals, handle) ==
    LET made == {i \in DOMAIN intervals : intervals[i] = handle}
    IN  IF made = {} THEN intervals
        ELSE LET k == CHOOSE i \in made : \A j \in made : j <= i
             IN  SubSeq(intervals, 1, k - 1) \o SubSeq(intervals, k + 1, Len(intervals))

\* clearInterval on the interval the ref holds, if any, and the ref is null
stopPulseAnimation(ts) ==
    IF ts.pulse # {}
    THEN [ts EXCEPT !.intervals = clearInterval(@, ts.pulse), !.pulse = {}]
    ELSE ts

\* an interval over these ids is set and kept in the ref, the one the ref
\* held being left to run
StartPulseOnly(ts, placeholderIds) ==
    [ts EXCEPT !.intervals = Append(@, placeholderIds), !.pulse = placeholderIds]

\* the running pulse is stopped, then an interval over these ids is set
startPulseAnimation(ts, placeholderIds) ==
    LET stopped == stopPulseAnimation(ts)
    IN  [stopped EXCEPT !.intervals = Append(@, placeholderIds),
                        !.pulse = placeholderIds]

\* the ids of the placeholders among the added nodes
PlaceholderIdsIn(added) ==
    {added[i].id : i \in {j \in DOMAIN added : StartsWith(added[j].id, PlaceholderPrefix)}}

\* the data's x, y given to the elements of the updated nodes as well
CyMoveToData(pos, cy, nodes) ==
    [id \in DOMAIN pos |->
        IF \E i \in DOMAIN nodes : nodes[i].id = id /\ getNodePosition(nodes[i]) # NoPos
        THEN getNodePosition(nodes[CHOOSE i \in DOMAIN nodes :
                 /\ nodes[i].id = id
                 /\ \A j \in DOMAIN nodes : nodes[j].id = id => j <= i])
        ELSE pos[id]]

\* ele.data('nodeData', node), ele.data('label', ...), ele.data('size', ...)
\* set data fields only: the elements stay where they are
CySetDataPositions(pos, cy, nodes) == pos

\* the positions after the batch
ApplyBatchPositions(cy, pos, b) ==
    CySetDataPositions(CyPositions(pos, CyRemove(cy, b.removed), b.added),
                       CyAdd(CyRemove(cy, b.removed), b.added), b.updated)

\* the elements the library makes of the first data: every node, and every
\* link between two of them, one element per id
InitialEdges(data) == CyAddEdges(Range(data.nodes), {}, data.links)

\* the branch of the effect: the first render builds every element; then
\* A (placeholder entrance) when an added id is a placeholder's, else
\* B (placeholder-to-real replacement) when a removed id is a placeholder's,
\* else C (generic update) when a node is added or removed, else D (data only)
ScenarioOf(prev, data) ==
    IF prev = NoGraph THEN "initial"
    ELSE IF hasNewPlaceholders(prev, data) THEN "A"
    ELSE IF hasRemovedPlaceholders(prev, data) THEN "B"
    ELSE IF addedNodes(prev, data) # << >> \/ removedNodeIds(prev, data) # {} THEN "C"
    ELSE "D"

\* one run of the effect: the surface and the timers it leaves
UpdateEffect(prev, data, cy, ts) ==
    LET added == addedNodes(prev, data)
        removed == removedNodeIds(prev, data)
        updated == updatedNodes(prev, data)
        links == addedLinks(prev, data)
        removedLinks == removedLinkKeys(prev, data)
        b == Batch(removed, added, updated, removedLinks, links)
        sc == ScenarioOf(prev, data)
    IN  CASE sc = "initial" ->
               [cy |-> Range(data.nodes), edges |-> InitialEdges(data),
                position |-> CyPositions(<< >>, {}, data.nodes), ts |-> ts,
                scenario |-> sc]
          [] sc = "A" ->
               LET entered == CyAdd(CyRemove(cy, removed), EntranceNodes(added))
               IN  [cy |-> CySetData(entered, updated),
                    edges |-> CyAddEdges(entered,
                                         CyRemoveEdges(cyEdges, removed, removedLinks),
                                         links),
                    position |-> CySetDataPositions(
                                     CyPositions(cyPosition, CyRemove(cy, removed),
                                                 EntranceNodes(added)),
                                     entered, updated),
                    ts |-> startPulseAnimation(ts, PlaceholderIdsIn(added)),
                    scenario |-> sc]
          [] sc = "B" ->
               [cy |-> cy, edges |-> cyEdges, position |-> cyPosition,
                ts |-> [stopPulseAnimation(ts) EXCEPT !.swap = Append(@, b)],
                scenario |-> sc]
          [] sc = "C" ->
               [cy |-> ApplyBatch(cy, b), edges |-> ApplyBatchEdges(cy, cyEdges, b),
                position |-> ApplyBatchPositions(cy, cyPosition, b), ts |-> ts,
                scenario |-> sc]
          [] sc = "D" ->
               [cy |-> CySetData(cy, updated), edges |-> cyEdges,
                position |-> CySetDataPositions(cyPosition, cy, updated), ts |-> ts,
                scenario |-> sc]

\* setGraphData(g) followed by the render it causes; cy and ts are the
\* surface and the timers when the effect runs.  Setting the value that is
\* the current one causes no render: the effect does not run.
Commit(g, cy, ts) ==
    IF g = graphData
    THEN /\ graphData' = g
         /\ cyNodes' = cy
         /\ cyEdges' = cyEdges
         /\ cyPosition' = cyPosition
         /\ timers' = ts
         /\ scenario' = NotRun
    ELSE LET r == UpdateEffect(graphData, g, cy, ts)
         IN  /\ graphData' = g
             /\ cyNodes' = r.cy
             /\ cyEdges' = r.edges
             /\ cyPosition' = r.position
             /\ timers' = r.ts
             /\ scenario' = r.scenario

----------------------------------------------------------------------------
(* app/citations/page.tsx: initial load *)

\* fetchAuthorData, response ok: sort, keep the payload, build the graph.
\* A payload with no author record makes transformAuthorToGraph throw on
\* data.author.name; the catch block sets the error state.
FetchAuthorDataOk(articles, hasAuthor) ==
    /\ Tick
    /\ UNCHANGED <<resolved, unmounted, funVars>>
    /\ initFetch
    /\ initFetch' = FALSE
    /\ LET sortedData == AuthorPayload(IF hasAuthor THEN MainName ELSE EmptyStr,
                                       SortByYearDesc(articles))
           graph == transformAuthorToGraph(sortedData, visiblePapers, nextObj)
       IN  /\ authorData' = sortedData
           /\ IF hasAuthor
              THEN /\ Commit(graph, cyNodes, timers)
                   /\ nextObj' = MaxObj(graph.nodes) + 1
                   /\ error' = ""
                   /\ last' = Op("build", MainName, NoGraph, NoGraph,
                                 sortedData.articles, graph)
              ELSE /\ error' = "error"
                   /\ last' = Op("buildThrows", EmptyStr, NoGraph, NoGraph, << >>,
                                 NoGraph)
                   /\ scenario' = NotRun /\ UNCHANGED <<graphData, cyNodes, cyEdges, cyPosition, timers, nextObj>>
    /\ loading' = FALSE
    /\ UNCHANGED <<visiblePapers, expansions, clicks, citationCache, selectedNode,
                   isExpandingRef, nExpansions, nClicks>>

\* fetchAuthorData, response not ok or fetch rejected
FetchAuthorDataFail ==
    /\ Tick
    /\ UNCHANGED <<resolved, unmounted, funVars>>
    /\ initFetch
    /\ initFetch' = FALSE
    /\ error' = "error"
    /\ loading' = FALSE
    /\ last' = Idle
    /\ scenario' = NotRun /\ UNCHANGED <<graphData, cyNodes, cyEdges, cyPosition, authorData, visiblePapers, expansions, clicks,
                   citationCache, selectedNode, isExpandingRef, timers, nextObj,
                   nExpansions, nClicks>>

\* ErrorMessage onRetry: fetchAuthorData again
Retry ==
    /\ Tick
    /\ UNCHANGED <<resolved, unmounted, funVars>>
    /\ error # ""
    /\ ~initFetch
    /\ loading' = TRUE
    /\ error' = ""
    /\ initFetch' = TRUE
    /\ last' = Idle
    /\ scenario' = NotRun /\ UNCHANGED <<graphData, cyNodes, cyEdges, cyPosition, authorData, visiblePapers, expansions, clicks,
                   citationCache, selectedNode, isExpandingRef, timers, nextObj,
                   nExpansions, nClicks>>

\* handleLoadMorePapers(count): the "+N more" and "All" buttons
handleLoadMorePapers(count) ==
    /\ Tick
    /\ UNCHANGED <<resolved, unmounted, funVars>>
    /\ Mounted
    /\ authorData.author # EmptyStr
    /\ visiblePapers < Len(authorData.articles)
    /\ LET articles == authorData.articles
           currentCount == visiblePapers
           newCount == IF count < Len(articles) THEN count ELSE Len(articles)
           additionalPapers == Slice(articles, currentCount, newCount)
           researcherId == ResearcherId(authorData.author)
           updatedGraph == addMorePapers(graphData, researcherId, additionalPapers,
                                         nextObj)
       IN  /\ newCount > currentCount
           /\ Commit(updatedGraph, cyNodes, timers)
           /\ visiblePapers' = newCount
           /\ nextObj' = IF MaxObj(updatedGraph.nodes) + 1 > nextObj
                         THEN MaxObj(updatedGraph.nodes) + 1 ELSE nextObj
           /\ last' = Op("loadMore", authorData.author, graphData, graphData,
                         additionalPapers, updatedGraph)
    /\ UNCHANGED <<authorData, loading, error, initFetch, expansions, clicks,
                   citationCache, selectedNode, isExpandingRef, nExpansions, nClicks>>

LoadMore == \/ handleLoadMorePapers(visiblePapers + PageSize)
            \/ handleLoadMorePapers(Len(authorData.articles))

----------------------------------------------------------------------------
(* In-place mutation.  updateNodeWithCitationData writes the authors and   *)
(* the venue into the node object itself, so every array that holds that   *)
(* object (the current graph, the snapshots closed over by handlers that   *)
(* are awaiting, the node shown in the drawer) sees the write.             *)

MutateNode(n, objs, authors, venue) ==
    IF n.obj \in objs THEN [n EXCEPT !.authors = authors, !.venue = venue] ELSE n

MutateGraph(g, objs, authors, venue) ==
    Graph([i \in DOMAIN g.nodes |-> MutateNode(g.nodes[i], objs, authors, venue)],
          g.links)

MutateSeq(nodes, objs, authors, venue) ==
    [i \in DOMAIN nodes |-> MutateNode(nodes[i], objs, authors, venue)]

\* the surface holds the node objects themselves
MutateSurface(cy, objs, authors, venue) ==
    {MutateNode(n, objs, authors, venue) : n \in cy}

\* and so do the diffs the pending swap callbacks closed over
MutateTimers(ts, objs, authors, venue) ==
    [ts EXCEPT !.swap =
        [b \in DOMAIN @ |->
            Batch(@[b].removed,
                  MutateSeq(@[b].added, objs, authors, venue),
                  MutateSeq(@[b].updated, objs, authors, venue),
                  @[b].removedLinks, @[b].addedLinks)]]

\* the authors list built from the citation's names: no id, no link
NamesOnly(names) == [i \in DOMAIN names |-> Author(names[i], EmptyStr)]

\* the object a handler mutates: the first node of its snapshot with the id
TargetObj(snap, nodeId) == snap.nodes[FirstIndex(snap.nodes, nodeId)].obj

\* a request map whose entries are never deleted: every click stays
ClicksKept(cs, citationId, objs, authors, venue) == cs

\* the clicks other than those waiting on citationId, their snapshots
\* seeing the write as well
RECURSIVE OtherClicks(_, _, _, _, _)
OtherClicks(cs, citationId, objs, authors, venue) ==
    IF cs = << >> THEN << >>
    ELSE (IF Head(cs).cid = citationId THEN << >>
          ELSE <<[Head(cs) EXCEPT !.snap = MutateGraph(@, objs, authors, venue)]>>)
         \o OtherClicks(Tail(cs), citationId, objs, authors, venue)

\* updateNodeWithCitationData run by the handlers hs (in order) on one
\* response: each mutates its target and commits a copy of its own snapshot.
\* sel is the node selected when they run, done the citation id whose
\* waiters have finished.
ApplyCitation(hs, resp, sel, done) ==
    LET committing == resp.citation /\ resp.authors # << >>
        found == {i \in DOMAIN hs : HasId(hs[i].snap.nodes, hs[i].nodeId)}
        objs == {TargetObj(hs[i].snap, hs[i].nodeId) : i \in found}
        authors == NamesOnly(resp.authors)
        lastOne == CHOOSE i \in found : \A j \in found : j <= i
    IN  IF committing /\ found # {}
        THEN /\ Commit(MutateGraph(hs[lastOne].snap, objs, authors, resp.venue),
                       MutateSurface(cyNodes, objs, authors, resp.venue),
                       MutateTimers(timers, objs, authors, resp.venue))
             /\ selectedNode' = MutateNode(sel, objs, authors, resp.venue)
             /\ expansions' =
                    [e \in DOMAIN expansions |->
                        [expansions[e] EXCEPT
                            !.snap = MutateGraph(@, objs, authors, resp.venue),
                            !.gwp = MutateGraph(@, objs, authors, resp.venue)]]
             /\ clicks' = OtherClicks(clicks, done, objs, authors, resp.venue)
             /\ last' = Op("citation", hs[lastOne].nodeId,
                           MutateGraph(graphData, objs, authors, resp.venue),
                           MutateGraph(hs[lastOne].snap, objs, authors, resp.venue),
                           << >>,
                           MutateGraph(hs[lastOne].snap, objs, authors, resp.venue))
        ELSE /\ selectedNode' = sel
             /\ clicks' = OtherClicks(clicks, done, {}, << >>, EmptyStr)
             /\ last' = Idle
             /\ scenario' = NotRun /\ UNCHANGED <<graphData, cyNodes, cyEdges, cyPosition, timers, expansions>>

RECURSIVE ClicksOn(_, _)
ClicksOn(cs, citationId) ==
    IF cs = << >> THEN << >>
    ELSE (IF Head(cs).cid = citationId THEN <<Head(cs)>> ELSE << >>)
         \o ClicksOn(Tail(cs), citationId)

Pending(citationId) == \E i \in DOMAIN clicks : clicks[i].cid = citationId

----------------------------------------------------------------------------
(* Graph component events and app/citations/page.tsx handleNodeClick *)

\* cy.on('tap', 'node') on the element with this id: select its nodeData,
\* then onNodeClick(nodeData); limit bounds the waits started in one run
TapNodeWithin(id, limit) ==
    /\ Tick
    /\ UNCHANGED <<resolved, unmounted, funVars>>
    /\ Mounted
    /\ \E n \in cyNodes : n.id = id
    /\ LET node == CHOOSE n \in cyNodes : n.id = id
           citationId == node.citation_id
           \* starter: this call issues the request (none is pending for the
           \* citation id); otherwise it awaits the pending promise
           me == [cid |-> citationId, nodeId |-> node.id, snap |-> graphData,
                  starter |-> ~Pending(citationId)]
       IN  IF node.type = "paper" /\ citationId # EmptyStr
           THEN IF citationId \in DOMAIN citationCache
                THEN \* served from the cache, synchronously
                     /\ ApplyCitation(<<me>>, citationCache[citationId], node,
                                      <<"none">>)
                     /\ UNCHANGED nClicks
                ELSE \* a fetch is started, or the pending one is awaited
                     /\ nClicks < limit
                     /\ clicks' = Append(clicks, me)
                     /\ nClicks' = nClicks + 1
                     /\ selectedNode' = node
                     /\ last' = Idle
                     /\ scenario' = NotRun /\ UNCHANGED <<graphData, cyNodes, cyEdges, cyPosition, timers, expansions>>
           ELSE /\ selectedNode' = node
                /\ last' = Idle
                /\ scenario' = NotRun /\ UNCHANGED <<graphData, cyNodes, cyEdges, cyPosition, timers, expansions, clicks, nClicks>>
    /\ UNCHANGED <<authorData, visiblePapers, loading, error, initFetch,
                   citationCache, isExpandingRef, nextObj, nExpansions>>

TapNode(id) == TapNodeWithin(id, MaxClicks)

\* the citation-detail fetch resolves: cache it, drop the pending entry, then
\* the starter and every waiter run updateNodeWithCitationData
CitationOk(citationId, resp) ==
    /\ Tick
    /\ UNCHANGED <<resolved, unmounted, funVars>>
    /\ Pending(citationId)
    /\ citationCache' = (citationId :> resp) @@ citationCache
    /\ ApplyCitation(ClicksOn(clicks, citationId), resp, selectedNode, citationId)
    /\ UNCHANGED <<authorData, visiblePapers, loading, error, initFetch,
                   isExpandingRef, nextObj, nExpansions, nClicks>>

\* the citation-detail fetch fails: the pending entry is dropped, the starter
\* and the waiters log the error
CitationFail(citationId) ==
    /\ Tick
    /\ UNCHANGED <<resolved, unmounted, funVars>>
    /\ Pending(citationId)
    /\ clicks' = OtherClicks(clicks, citationId, {}, << >>, EmptyStr)
    /\ last' = Idle
    /\ scenario' = NotRun /\ UNCHANGED <<graphData, cyNodes, cyEdges, cyPosition, authorData, visiblePapers, loading, error, initFetch,
                   expansions, citationCache, selectedNode, isExpandingRef, timers,
                   nextObj, nExpansions, nClicks>>

\* cy.on('tap') on the background: deselect and reset the expansion state
TapBackground ==
    /\ Tick
    /\ UNCHANGED <<resolved, unmounted, funVars>>
    /\ Mounted
    /\ selectedNode' = NoNode
    /\ isExpandingRef' = FALSE
    /\ last' = Idle
    /\ scenario' = NotRun /\ UNCHANGED <<graphData, cyNodes, cyEdges, cyPosition, authorData, visiblePapers, loading, error, initFetch,
                   expansions, clicks, citationCache, timers, nextObj, nExpansions,
                   nClicks>>

\* the drawer's backdrop, handle and close button: deselect, nothing else
CloseDrawer ==
    /\ Tick
    /\ UNCHANGED <<resolved, unmounted, funVars>>
    /\ Mounted
    /\ selectedNode # NoNode
    /\ selectedNode' = NoNode
    /\ last' = Idle
    /\ scenario' = NotRun /\ UNCHANGED <<graphData, cyNodes, cyEdges, cyPosition, authorData, visiblePapers, loading, error, initFetch,
                   expansions, clicks, citationCache, isExpandingRef, timers, nextObj,
                   nExpansions, nClicks>>

----------------------------------------------------------------------------
(* Co-author expansion: handleAuthorExpand (graph component) calling       *)
(* handleExpandResearcher (page)                                           *)

Expansion(name, authorId, source, snap, gwp, pc) ==
    [ name |-> name, authorId |-> authorId, source |-> source, snap |-> snap,
      gwp |-> gwp, pc |-> pc ]

\* a catch block that takes the loading nodes and their links off the graph
RECURSIVE DropLoading(_, _, _)
DropLoading(nodes, i, g) ==
    IF i > Len(nodes) THEN g
    ELSE IF nodes[i].loading /\ nodes[i].type = "paper"
         THEN DropLoading(nodes, i + 1,
                  Graph(SelectSeq(g.nodes, LAMBDA n : n.id # nodes[i].id),
                        DropLinksOf(g.links, nodes[i].id)))
         ELSE DropLoading(nodes, i + 1, g)

RollBackPlaceholders(g) == DropLoading(g.nodes, 1, g)

\* the catch block of handleExpandResearcher: it logs, and leaves the graph
CatchExpansionError(g) == g

\* a click on an author row of the drawer
AuthorClick(k) ==
    /\ Tick
    /\ UNCHANGED <<resolved, unmounted, funVars>>
    /\ Mounted
    /\ selectedNode # NoNode
    /\ selectedNode.type = "paper"
    /\ k \in DOMAIN selectedNode.authors
    /\ LET authorName == selectedNode.authors[k].name
           authorId == selectedNode.authors[k].id
           sourcePaperId == selectedNode.id
           ts == SetTimer(timers, "drawer")
       IN  IF isExpandingRef
           THEN \* the guard of handleAuthorExpand: the attempt is dropped
                /\ last' = Op("expandIgnored", authorName, graphData, graphData, << >>,
                              graphData)
                /\ scenario' = NotRun /\ UNCHANGED <<graphData, cyNodes, cyEdges, cyPosition, expansions, isExpandingRef, timers, nextObj,
                               nExpansions>>
           ELSE /\ nExpansions < MaxExpansions
                /\ nExpansions' = nExpansions + 1
                /\ isExpandingRef' = TRUE
                /\ IF authorId = EmptyStr
                   THEN \* the profile search is awaited first
                        /\ expansions' = Append(expansions,
                               Expansion(authorName, authorId, sourcePaperId,
                                         graphData, NoGraph, "search"))
                        /\ timers' = ts
                        /\ last' = Op("expandSearch", authorName, graphData,
                                      graphData, << >>, graphData)
                        /\ scenario' = NotRun /\ UNCHANGED <<graphData, cyNodes, cyEdges, cyPosition, nextObj>>
                   ELSE LET gwp == addResearcherPlaceholders(graphData, authorName,
                                       sourcePaperId, PlaceholderCount, nextObj)
                        IN  /\ Commit(gwp, cyNodes, ts)
                            /\ nextObj' = MaxObj(gwp.nodes) + 1
                            /\ expansions' = Append(expansions,
                                   Expansion(authorName, authorId, sourcePaperId,
                                             graphData, gwp, "fetch"))
                            /\ last' = Op("placeholders", authorName, graphData,
                                          graphData, << >>, gwp)
    /\ UNCHANGED <<authorData, visiblePapers, loading, error, initFetch, clicks,
                   citationCache, selectedNode, nClicks>>

Without(seq, e) == SubSeq(seq, 1, e - 1) \o SubSeq(seq, e + 1, Len(seq))

\* the profile search answers with a match: placeholders are added to the
\* graph the handler closed over when it was called
SearchFound(e) ==
    /\ Tick
    /\ UNCHANGED <<resolved, unmounted, funVars>>
    /\ e \in DOMAIN expansions
    /\ expansions[e].pc = "search"
    /\ LET x == expansions[e]
           gwp == addResearcherPlaceholders(x.snap, x.name, x.source,
                                            PlaceholderCount, nextObj)
       IN  /\ Commit(gwp, cyNodes, timers)
           /\ nextObj' = MaxObj(gwp.nodes) + 1
           /\ expansions' = [expansions EXCEPT ![e].gwp = gwp, ![e].pc = "fetch"]
           /\ last' = Op("placeholders", x.name, graphData, x.snap, << >>, gwp)
    /\ UNCHANGED <<authorData, visiblePapers, loading, error, initFetch, clicks,
                   citationCache, selectedNode, isExpandingRef, nExpansions, nClicks>>

\* a handler that shows the placeholders before it knows the search's answer
\* and leaves them when the search ends without a profile
SearchEndsWithPlaceholders(e, why) ==
    /\ Tick
    /\ UNCHANGED <<resolved, unmounted, funVars>>
    /\ e \in DOMAIN expansions
    /\ expansions[e].pc = "search"
    /\ expansions' = Without(expansions, e)
    /\ LET x == expansions[e]
           gwp == addResearcherPlaceholders(graphData, x.name, x.source,
                                            PlaceholderCount, nextObj)
       IN  /\ Commit(gwp, cyNodes, timers)
           /\ nextObj' = MaxObj(gwp.nodes) + 1
           /\ last' = Op(why, x.name, graphData, x.snap, << >>, gwp)
    /\ UNCHANGED <<authorData, visiblePapers, loading, error, initFetch,
                   clicks, citationCache, selectedNode, isExpandingRef,
                   nExpansions, nClicks>>

\* the profile search answers with no profile, answers not ok, or rejects:
\* the handler returns
SearchEnds(e, why) ==
    /\ Tick
    /\ UNCHANGED <<resolved, unmounted, funVars>>
    /\ e \in DOMAIN expansions
    /\ expansions[e].pc = "search"
    /\ expansions' = Without(expansions, e)
    /\ last' = Op(why, expansions[e].name, graphData, expansions[e].snap, << >>,
                  graphData)
    /\ scenario' = NotRun /\ UNCHANGED <<graphData, cyNodes, cyEdges, cyPosition, authorData, visiblePapers, loading, error, initFetch,
                   clicks, citationCache, selectedNode, isExpandingRef, timers,
                   nextObj, nExpansions, nClicks>>

SearchNoMatch(e) == SearchEnds(e, "searchNoMatch")
SearchFails(e) == SearchEnds(e, "searchFails")

\* the author fetch answers: sort, then replace the placeholders in the graph
\* the handler built before the await
AuthorFetchOk(e, articles) ==
    /\ Tick
    /\ e \in DOMAIN expansions
    /\ expansions[e].pc = "fetch"
    /\ resolved' = resolved \cup {expansions[e].name}
    /\ UNCHANGED <<unmounted, funVars>>
    /\ LET x == expansions[e]
           newAuthorData == AuthorPayload(x.name, SortByYearDesc(articles))
           finalGraph == updateResearcherPapers(x.gwp, newAuthorData, x.name, nextObj)
       IN  /\ Commit(finalGraph, cyNodes, timers)
           /\ nextObj' = IF MaxObj(finalGraph.nodes) + 1 > nextObj
                         THEN MaxObj(finalGraph.nodes) + 1 ELSE nextObj
           /\ last' = Op("resolve", x.name, graphData, x.gwp, newAuthorData.articles,
                         finalGraph)
    /\ expansions' = Without(expansions, e)
    /\ UNCHANGED <<authorData, visiblePapers, loading, error, initFetch, clicks,
                   citationCache, selectedNode, isExpandingRef, nExpansions, nClicks>>

\* the author fetch rejects or answers not ok, or its payload has no author
\* record (updateResearcherPapers throws): the catch block runs
AuthorFetchFails(e) ==
    /\ Tick
    /\ UNCHANGED <<resolved, unmounted, funVars>>
    /\ e \in DOMAIN expansions
    /\ expansions[e].pc = "fetch"
    /\ Commit(CatchExpansionError(graphData), cyNodes, timers)
    /\ last' = Op("expandFails", expansions[e].name, graphData, expansions[e].gwp,
                  << >>, CatchExpansionError(graphData))
    /\ expansions' = Without(expansions, e)
    /\ UNCHANGED <<authorData, visiblePapers, loading, error, initFetch, clicks,
                   citationCache, selectedNode, isExpandingRef, nextObj, nExpansions,
                   nClicks>>

----------------------------------------------------------------------------
(* Timers of the graph component *)

\* the drawer timer chain of an accepted author click: after 400 ms the drawer
\* is marked as closing (a display flag), 300 ms later the selection is cleared
DrawerClosed ==
    /\ Tick
    /\ UNCHANGED <<resolved, unmounted, funVars>>
    /\ timers.drawer > 0
    /\ timers' = ClearTimer(timers, "drawer")
    /\ selectedNode' = NoNode
    /\ last' = Idle
    /\ scenario' = NotRun /\ UNCHANGED <<graphData, cyNodes, cyEdges, cyPosition, authorData, visiblePapers, loading, error, initFetch,
                   expansions, clicks, citationCache, isExpandingRef, nextObj,
                   nExpansions, nClicks>>

\* 220 ms after placeholders were removed from the data: the swap batch on
\* the surface, which sets the fade-in timer
\* After an unmount the callback still runs, on the surface it closed over:
\* the library decides what a disposed surface does with the batch, so the
\* callback either throws there or goes on and sets the fade-in timer; the
\* disposed surface holds no elements either way.
SwapBatch ==
    /\ Tick
    /\ UNCHANGED <<resolved, unmounted, funVars>>
    /\ timers.swap # << >>
    /\ scenario' = NotRun
    /\ IF unmounted
       THEN /\ cyNodes' = cyNodes
            /\ cyEdges' = cyEdges
            /\ cyPosition' = cyPosition
            /\ \/ timers' = [timers EXCEPT !.swap = Tail(@)]
               \/ timers' = SetTimer([timers EXCEPT !.swap = Tail(@)], "fadeInDone")
            /\ last' = OnDisposed("swap")
       ELSE /\ cyNodes' = ApplyBatch(cyNodes, Head(timers.swap))
            /\ cyEdges' = ApplyBatchEdges(cyNodes, cyEdges, Head(timers.swap))
            /\ cyPosition' = ApplyBatchPositions(cyNodes, cyPosition, Head(timers.swap))
            /\ timers' = SetTimer([timers EXCEPT !.swap = Tail(@)], "fadeInDone")
            /\ last' = Idle
    /\ UNCHANGED <<graphData, authorData, visiblePapers, loading, error, initFetch,
                   expansions, clicks, citationCache, selectedNode, isExpandingRef,
                   nextObj, nExpansions, nClicks>>

\* after the fade-in: camera fit, and the expansion state is cleared
FadeInDone ==
    /\ Tick
    /\ UNCHANGED <<resolved, unmounted, funVars>>
    /\ timers.fadeInDone > 0
    /\ timers' = ClearTimer(timers, "fadeInDone")
    /\ isExpandingRef' = FALSE
    /\ last' = IF unmounted THEN OnDisposed("fit") ELSE Idle
    /\ scenario' = NotRun /\ UNCHANGED <<graphData, cyNodes, cyEdges, cyPosition, authorData, visiblePapers, loading, error, initFetch,
                   expansions, clicks, citationCache, selectedNode, nextObj,
                   nExpansions, nClicks>>

\* Navigating away: the page and the graph component unmount.  The cleanup
\* effect stops the pulse interval and the nodes' animations; no setTimeout
\* is cleared.  The component state is gone (state setters of an unmounted
\* component do nothing, so the pending responses no longer matter) and the
\* surface is disposed with its elements.
Unmount ==
    /\ Tick
    /\ ~unmounted
    /\ unmounted' = TRUE
    /\ timers' = stopPulseAnimation(timers)
    /\ cyNodes' = {}
    /\ cyEdges' = {}
    /\ cyPosition' = << >>
    /\ scenario' = NotRun
    /\ graphData' = NoGraph
    /\ authorData' = NoData
    /\ visiblePapers' = PageSize
    /\ loading' = FALSE
    /\ error' = ""
    /\ initFetch' = FALSE
    /\ expansions' = << >>
    /\ clicks' = << >>
    /\ citationCache' = << >>
    /\ selectedNode' = NoNode
    /\ isExpandingRef' = FALSE
    /\ nextObj' = 1
    /\ nExpansions' = 0
    /\ nClicks' = 0
    /\ resolved' = {}
    /\ UNCHANGED funVars
    /\ last' = Op("unmount", EmptyStr, NoGraph, NoGraph, << >>, NoGraph)

----------------------------------------------------------------------------

\* the ids an element of the surface can have
ElementIds ==
    {ResearcherId(name) : name \in {MainName} \cup AuthorNames}
    \cup {PlaceholderId(name, i) : name \in AuthorNames, i \in 0..(PlaceholderCount - 1)}
    \cup {PaperId(ArticlePool[i]) : i \in DOMAIN ArticlePool}

CitationIds == {ArticlePool[i].citation_id : i \in DOMAIN ArticlePool} \ {EmptyStr}

Next ==
    \/ \E articles \in ProfileLists : FetchAuthorDataOk(articles, TRUE)
    \/ FetchAuthorDataOk(<< >>, FALSE)
    \/ FetchAuthorDataFail
    \/ Retry
    \/ LoadMore
    \/ \E id \in ElementIds : TapNode(id)
    \/ \E c \in CitationIds, r \in CitationResponses : CitationOk(c, r)
    \/ \E c \in CitationIds : CitationFail(c)
    \/ TapBackground
    \/ CloseDrawer
    \/ \E k \in 1..2 : AuthorClick(k)
    \/ \E e \in 1..MaxExpansions :
          \/ SearchFound(e)
          \/ SearchNoMatch(e)
          \/ SearchFails(e)
          \/ \E articles \in ArticleLists : AuthorFetchOk(e, articles)
          \/ AuthorFetchFails(e)
    \/ DrawerClosed
    \/ SwapBatch
    \/ FadeInDone
    \/ Unmount

Spec == Init /\ [][Next]_vars

----------------------------------------------------------------------------
(* Resolution on its own.  The run starts where one expansion awaits its   *)
(* author response: the profile is loaded, the first paper's co-authors    *)
(* were expanded one after another, every expansion but the last has       *)
(* failed (its placeholders stay), the drawer has closed.  The response    *)
(* then arrives or fails.                                                  *)

\* the co-authors expanded, in order; the last one is awaited
NameSeqs == UNION {[1..n -> AuthorNames] : n \in 1..MaxExpansions}

\* the graph after the first n of these expansions
RECURSIVE Rounds(_, _, _, _)
Rounds(g, names, n, sourcePaperId) ==
    IF n = 0 THEN g
    ELSE LET prev == Rounds(g, names, n - 1, sourcePaperId)
         IN  addResearcherPlaceholders(prev, names[n], sourcePaperId,
                                       PlaceholderCount, MaxObj(prev.nodes) + 1)

\* the id the drawer passes for an author of the node
AuthorIdOn(node, name) ==
    LET k == CHOOSE k \in DOMAIN node.authors : node.authors[k].name = name
    IN  node.authors[k].id

InitResolve ==
    \E articles \in ProfileLists \ {<< >>}, names \in NameSeqs :
        LET sortedData == AuthorPayload(MainName, SortByYearDesc(articles))
            graph == transformAuthorToGraph(sortedData, PageSize, 1)
            sourceNode == graph.nodes[2]
            snap == Rounds(graph, names, Len(names) - 1, sourceNode.id)
            gwp == Rounds(graph, names, Len(names), sourceNode.id)
            name == names[Len(names)]
        IN  /\ graphData = gwp
            /\ authorData = sortedData
            /\ visiblePapers = PageSize
            /\ loading = FALSE
            /\ error = ""
            /\ initFetch = FALSE
            /\ expansions = << Expansion(name, AuthorIdOn(sourceNode, name),
                                         sourceNode.id, snap, gwp, "fetch") >>
            /\ clicks = << >>
            /\ citationCache = << >>
            /\ selectedNode = NoNode
            /\ isExpandingRef = TRUE
            /\ cyNodes = Range(gwp.nodes)
            /\ cyEdges = InitialEdges(gwp)
            /\ cyPosition = CyPositions(<< >>, {}, gwp.nodes)
            /\ scenario = ScenarioOf(snap, gwp)
            /\ timers = startPulseAnimation(NoTimers,
                                             PlaceholderIdsIn(addedNodes(snap, gwp)))
            /\ nextObj = MaxObj(gwp.nodes) + 1
            /\ nExpansions = Len(names)
            /\ nClicks = 0
            /\ resolved = {}
            /\ unmounted = FALSE
            /\ FunAtRest
            /\ nEvents = 0
            /\ last = Op("placeholders", name, snap, snap, << >>, gwp)

NextResolve ==
    \/ \E articles \in ArticleLists : AuthorFetchOk(1, articles)
    \/ AuthorFetchFails(1)

SpecResolve == InitResolve /\ [][NextResolve]_vars

----------------------------------------------------------------------------
(* Properties *)

Min(a, b) == IF a < b THEN a ELSE b

\* the positions in g.nodes of the nodes identified as name's placeholders
PlaceholdersOf(g, name) == IndicesFrom(g.nodes, 1, PlaceholderPattern(name))

UniqueNodeIds(g) ==
    \A i, j \in DOMAIN g.nodes : g.nodes[i].id = g.nodes[j].id => i = j

UniqueEdges(g) ==
    \A i, j \in DOMAIN g.links :
        (g.links[i].source = g.links[j].source /\ g.links[i].target = g.links[j].target)
            => i = j

NoDanglingEdges(g) ==
    \A j \in DOMAIN g.links : /\ HasId(g.nodes, g.links[j].source)
                              /\ HasId(g.nodes, g.links[j].target)

\* the last event was a resolution of P placeholders with R articles
Resolved == last.op = "resolve"
ResolvedP == Len(PlaceholdersOf(last.before, last.name))
ResolvedR == Len(last.articles)

\* C1: placeholder accounting, fewer results.  When a resolution finds P
\* placeholders of the researcher and is given R < P articles, the graph it
\* returns holds the R papers at the positions of the first R placeholders,
\* has P - R nodes fewer, holds no placeholder of the researcher, and no link
\* names one of the P - R removed placeholders.
C1_FewerResults ==
    (Resolved /\ ResolvedR < ResolvedP) =>
        LET pi == PlaceholdersOf(last.before, last.name)
            removed == {last.before.nodes[pi[j]].id : j \in (ResolvedR + 1)..ResolvedP}
        IN  /\ Len(last.after.nodes) = Len(last.before.nodes) - (ResolvedP - ResolvedR)
            /\ \A i \in 1..ResolvedR :
                   /\ last.after.nodes[pi[i]].id = PaperId(last.articles[i])
                   /\ last.after.nodes[pi[i]].type = "paper"
                   /\ ~last.after.nodes[pi[i]].loading
            /\ PlaceholdersOf(last.after, last.name) = << >>
            /\ \A j \in DOMAIN last.after.links :
                   /\ last.after.links[j].source \notin removed
                   /\ last.after.links[j].target \notin removed
            /\ graphData = last.after

\* C1 witness: a resolution given at least one article and fewer articles
\* than there are placeholders
C1_Witness ==
    /\ Resolved
    /\ 0 < ResolvedR
    /\ ResolvedR < ResolvedP
    /\ graphData = last.after

\* C2: placeholder accounting, more results.  When a resolution finds P
\* placeholders of the researcher and is given R > P articles, the graph it
\* returns holds article i at the position of placeholder i for i up to P,
\* every other node is the node that was there, no node is added for the
\* other R - P articles, and no placeholder of the researcher is left.
C2_MoreResults ==
    (Resolved /\ ResolvedR > ResolvedP) =>
        LET pi == PlaceholdersOf(last.before, last.name)
        IN  /\ Len(last.after.nodes) = Len(last.before.nodes)
            /\ \A i \in 1..ResolvedP :
                   last.after.nodes[pi[i]].id = PaperId(last.articles[i])
            /\ \A n \in DOMAIN last.before.nodes :
                   n \notin Range(pi) => last.after.nodes[n].id = last.before.nodes[n].id
            /\ PlaceholdersOf(last.after, last.name) = << >>
            /\ graphData = last.after

\* C2 witness: a resolution given more articles than there are placeholders,
\* with at least two placeholders
C2_Witness ==
    /\ Resolved
    /\ ResolvedP >= 2
    /\ ResolvedR > ResolvedP
    /\ graphData = last.after

\* C3: node ids are unique in the current graph after any sequence of
\* builder and mutator operations.
C3_NodeIdsUnique == UniqueNodeIds(graphData)

\* C4: the current graph never holds two edges with the same ordered
\* (source, target) pair.
C4_EdgesUnique == UniqueEdges(graphData)

\* C5: no dangling edges: in every graph a builder or mutator returned and
\* the page made current, each edge's source and target are ids of nodes of
\* that graph.
C5_NoDanglingEdges == NoDanglingEdges(graphData)

\* C6: id-swap edge rewrite.  For every placeholder a resolution replaces by
\* a paper, every link of the graph it was given that named the placeholder's
\* id as target (as source) is in the returned graph with the paper's id as
\* target (as source).
C6_EdgesRewritten ==
    Resolved =>
        LET pi == PlaceholdersOf(last.before, last.name)
        IN  \A i \in 1..Min(ResolvedR, ResolvedP) :
              \A j \in DOMAIN last.before.links :
                LET l == last.before.links[j]
                    oldId == last.before.nodes[pi[i]].id
                    paperId == PaperId(last.articles[i])
                IN  /\ l.target = oldId =>
                           \E k \in DOMAIN last.after.links :
                               last.after.links[k] = [l EXCEPT !.target = paperId]
                    /\ l.source = oldId =>
                           \E k \in DOMAIN last.after.links :
                               last.after.links[k] = [l EXCEPT !.source = paperId]

\* C7: position inheritance.  The paper a resolution puts in a placeholder's
\* place has the x, y, layout distance and initial angle the placeholder had
\* in the graph the resolution was given.
C7_PositionInherited ==
    Resolved =>
        LET pi == PlaceholdersOf(last.before, last.name)
        IN  \A i \in 1..Min(ResolvedR, ResolvedP) :
                /\ last.after.nodes[pi[i]].id = PaperId(last.articles[i])
                /\ last.after.nodes[pi[i]].pos = last.before.nodes[pi[i]].pos
                /\ last.after.nodes[pi[i]].layoutDistance
                       = last.before.nodes[pi[i]].layoutDistance
                /\ last.after.nodes[pi[i]].initialAngle
                       = last.before.nodes[pi[i]].initialAngle

\* C7 witness: a resolution that has put a paper in the place of a
\* placeholder that had a position
C7_Witness ==
    /\ Resolved
    /\ Min(ResolvedR, ResolvedP) >= 1
    /\ last.before.nodes[PlaceholdersOf(last.before, last.name)[1]].pos # NoPos
    /\ graphData = last.after

\* C8: reentrancy guard.  While an expansion is in flight no second
\* expansion is accepted: at most one expansion awaits a response, whatever
\* the user taps in between.
C8_OneExpansionInFlight == Len(expansions) <= 1

\* C9: every graph committed after an await is computed from the graph that
\* is current at commit time: the snapshot a completing handler computes from
\* is the current graph.
C9_CommitsFromLatest ==
    last.op \in {"placeholders", "resolve", "citation"} => last.before = last.current

\* C10: failed expansion keeps placeholders.  When the author fetch of an
\* expansion fails, the graph stays the graph that was current, no error
\* state is entered, and when that graph is the one the expansion made by
\* inserting its placeholders it still holds the researcher node, its edge
\* to the source paper and the placeholders.
C10_FailureKeepsPlaceholders ==
    last.op = "expandFails" =>
        /\ graphData = last.current
        /\ error = ""
        /\ ~loading
        /\ last.current = last.before =>
               /\ Len(PlaceholdersOf(graphData, last.name)) >= PlaceholderCount
               /\ HasId(graphData.nodes, ResearcherId(last.name))
               /\ \E j \in DOMAIN graphData.links :
                      graphData.links[j].source = ResearcherId(last.name)
               /\ \A i \in 0..(PlaceholderCount - 1) :
                      LinkExists(graphData.links, ResearcherId(last.name),
                                 PlaceholderId(last.name, i))

\* C10 witness: an expansion has just failed and its placeholders are in the
\* current graph
C10_Witness ==
    /\ last.op = "expandFails"
    /\ last.current = last.before
    /\ Len(PlaceholdersOf(graphData, last.name)) >= PlaceholderCount

\* C11: failed expansion clears the in-flight flag.  When the author fetch
\* of an expansion has just failed, the in-flight flag is false, so that the
\* next author click is accepted.
C11_FailureClearsFlag == last.op = "expandFails" => ~isExpandingRef

\* the network requests in flight for a citation id: the calls of
\* handleNodeClick that issued one and still await it
CitationRequests(citationId) ==
    {i \in DOMAIN clicks : clicks[i].cid = citationId /\ clicks[i].starter}

\* the network requests in flight for an author name: a call of
\* handleExpandResearcher awaits one request at a time, its profile search
\* or its author fetch
AuthorRequests(name) == {e \in DOMAIN expansions : expansions[e].name = name}

\* C12: in-flight deduplication.  For every key, a citation id or an author
\* name, at most one network request is in flight at any time.
C12_OneRequestPerKey ==
    /\ \A c \in CitationIds : Cardinality(CitationRequests(c)) <= 1
    /\ \A name \in AuthorNames : Cardinality(AuthorRequests(name)) <= 1

\* C13: result cache.  Once a fetch for a key has resolved, no later call
\* for the same key issues a network request: a step never starts a citation
\* request for a cached citation id, nor an expansion request for an author
\* name whose author fetch has already answered.
C13_ServedFromCache ==
    [][/\ Len(clicks') = Len(clicks) + 1
          => clicks'[Len(clicks')].cid \notin DOMAIN citationCache
       /\ Len(expansions') = Len(expansions) + 1
          => expansions'[Len(expansions')].name \notin resolved]_vars

\* C14: unmount cancellation.  After the view is unmounted the pulse interval
\* is stopped and no timer callback has performed an operation on the
\* disposed surface.
C14_NothingRunsAfterUnmount ==
    unmounted => /\ timers.pulse = {}
                 /\ last.op # "onDisposed"

\* the step commits a graph whose node additions or removals the update
\* effect applies to the surface at once (scenarios A and C)
AppliesAtOnce ==
    /\ ~unmounted'
    /\ graphData # NoGraph
    /\ graphData' # graphData
    /\ \/ addedNodes(graphData, graphData') # << >>
       \/ removedNodeIds(graphData, graphData') # {}
    /\ Len(timers'.swap) = Len(timers.swap)

\* C15: ordering guarantee.  The removals and additions of an earlier update
\* are never applied to the surface after those of a later update: whenever
\* an update's removals and additions are applied, no batch of an earlier
\* update is still waiting for its fade-out to elapse.
C15_AppliedInEmittedOrder == [][AppliesAtOnce => timers.swap = << >>]_vars

\* the initial load has just been answered with a payload that has no author
\* record
AnsweredWithoutAuthor == last.op \in {"build", "buildThrows"} /\ last.name = EmptyStr

\* C18: missing author record.  When the payload has no author record, the
\* graph builder returns the empty graph, no nodes and no edges, and does not
\* raise: the build completes and no error is shown.
C18_MissingAuthorGivesEmptyGraph ==
    AnsweredWithoutAuthor => /\ last.op = "build"
                             /\ last.after.nodes = << >>
                             /\ last.after.links = << >>
                             /\ error = ""

\* C17: zero-match expansion is a no-op.  When the profile search of an
\* expansion returns no match, the step adds no researcher node, no
\* placeholder and no edge: the graph value and the surface are unchanged,
\* and no exception escapes (the error state is not set).
C17_ZeroMatchIsNoOp ==
    [][last'.op = "searchNoMatch" => /\ graphData' = graphData
                                     /\ cyNodes' = cyNodes
                                     /\ cyEdges' = cyEdges
                                     /\ error' = error]_vars

\* a profile search for a co-author without id has just returned no match,
\* and the graph has no node of that co-author
C17_Witness ==
    /\ last.op = "searchNoMatch"
    /\ graphData # NoGraph
    /\ ResearcherId(last.name) \notin NodeIds(graphData)
    /\ PlaceholdersOf(graphData, last.name) = << >>

\* the graph built again from the payload the page holds
BuiltAgain == transformAuthorToGraph(authorData, visiblePapers, nextObj)

\* C16: id-keyed upsert.  Building the graph a second time from the same
\* payload and reconciling the first result against the second gives no node
\* addition and no node removal.
C16_RebuildAddsAndRemovesNothing ==
    last.op = "build" => /\ addedNodes(last.after, BuiltAgain) = << >>
                         /\ removedNodeIds(last.after, BuiltAgain) = {}

\* a graph with papers has just been built, and building it again creates
\* new node objects
C16_Witness ==
    /\ last.op = "build"
    /\ Len(last.after.nodes) > 1
    /\ BuiltAgain # last.after

----------------------------------------------------------------------------
(* Citation counts on their own.  The run starts with the citation count   *)
(* fields of one article, of any of the shapes, and the two functions that *)
(* make a paper node from an article store its count.                      *)

InitCount ==
    /\ PageInit
    /\ MoreAtRest
    /\ citedBy \in CitedByShapes
    /\ citationCount = Undefined
    /\ AuthorsAtRest
    /\ PositionAtRest
    /\ DragAtRest
    /\ last = Idle

\* transformAuthorToGraph makes the article's node
BuildCounts ==
    /\ citationCount' = CountInBuild(citedBy)
    /\ last' = Op("countInBuild", EmptyStr, NoGraph, NoGraph, << >>, NoGraph)
    /\ UNCHANGED <<pageVars, moreVars, citedBy, authorsVars, positionVars, dragVars>>

\* addMorePapers makes the article's node
LoadMoreCounts ==
    /\ citationCount' = CountInLoadMore(citedBy)
    /\ last' = Op("countInLoadMore", EmptyStr, NoGraph, NoGraph, << >>, NoGraph)
    /\ UNCHANGED <<pageVars, moreVars, citedBy, authorsVars, positionVars, dragVars>>

NextCount == BuildCounts \/ LoadMoreCounts

SpecCount == InitCount /\ [][NextCount]_vars

\* a node has been made from the article
Counted == citationCount # Undefined

\* the fields the function that made the node reads hold no count
CountAbsent ==
    IF last.op = "countInBuild" THEN citedBy = NoCitedBy
    ELSE citedBy.value = Undefined

\* the count the function reads is a string from which no integer can be read
CountUnparsable ==
    /\ citedBy.value.type = "string"
    /\ last.op = "countInBuild" => ~Truthy(citedBy.inlineTotal) /\ ~Truthy(citedBy.total)
    /\ parseInt(RemoveCommas(citedBy.value.s)) = NaN

\* C19: citation-count default.  The citation count stored on a paper's node
\* is an integer, never NaN, and it is 0 when the payload holds no count or
\* holds one that cannot be parsed.
C19_CountIsIntegerDefaultZero ==
    Counted => /\ citationCount.type = "number"
               /\ ~citationCount.nan
               /\ CountAbsent \/ CountUnparsable => citationCount = JsInt(0)

\* C20: citation-count parsing.  A count given as the string "12,345" is
\* stored as the integer 12345.
C20_ThousandsSeparator ==
    (Counted /\ citedBy = CitedBy(Undefined, Undefined, JsStr(TwelveThousand)))
        => citationCount = JsInt(12345)

\* a node has been made from an article whose only count is the string
\* "12,345"
C20_Witness ==
    /\ Counted
    /\ last.op = "countInBuild"
    /\ citedBy = CitedBy(Undefined, Undefined, JsStr(TwelveThousand))

----------------------------------------------------------------------------
(* Author lists on their own.  The run starts with the authors field of    *)
(* one article, and the three functions that turn it into node metadata    *)
(* make the article's node.                                                *)

InitAuthors ==
    /\ PageInit
    /\ MoreAtRest
    /\ CountAtRest
    /\ PositionAtRest
    /\ DragAtRest
    /\ articleAuthors \in AuthorsValues
    /\ authorsList = NotMade
    /\ last = Idle

\* the function named by op makes the article's node with this author list
MakesAuthors(op, list) ==
    /\ authorsList' = Made(list)
    /\ last' = Op(op, EmptyStr, NoGraph, NoGraph, << >>, NoGraph)
    /\ UNCHANGED <<pageVars, moreVars, countVars, positionVars, dragVars, articleAuthors>>

BuildAuthors == MakesAuthors("authorsInBuild", AuthorsInBuild(articleAuthors))
AddResearcherAuthors ==
    MakesAuthors("authorsInAddResearcher", AuthorsInAddResearcher(articleAuthors))
UpdateAuthors == MakesAuthors("authorsInUpdate", AuthorsInUpdate(articleAuthors))

NextAuthors == BuildAuthors \/ AddResearcherAuthors \/ UpdateAuthors

SpecAuthors == InitAuthors /\ [][NextAuthors]_vars

\* C21: author-string parsing.  Whichever function made the node, the
\* authors string "J Smith, K Doe - Nature, 2020" gives exactly the author
\* list J Smith, K Doe: the venue after " - " is discarded.
C21_AuthorsStringParsed ==
    (/\ authorsList.made
     /\ articleAuthors.type = "string"
     /\ articleAuthors.s = SmithDoeNature)
        => authorsList.list = <<Author(JSmith, EmptyStr), Author(KDoe, EmptyStr)>>

----------------------------------------------------------------------------
(* generateRadialPosition on its own.  The run starts with one set of      *)
(* arguments; the function is called with them again and again, whatever   *)
(* was computed before.  A 32-bit hash is kept as two 16-bit halves.       *)

Half == 65536

\* seed.charCodeAt(i), for the characters of the seeds tried
SeedChars == {"a", "b", "-", "1"}
CharCode(c) == CASE c = "a" -> 97 [] c = "b" -> 98 [] c = "-" -> 45 [] c = "1" -> 49
                 [] c = "p" -> 112 [] c = "e" -> 101 [] c = "r" -> 114
                 [] c = "z" -> 122 [] c = "l" -> 108 [] c = "_" -> 95
                 [] c = "Z" -> 90 [] c = "m" -> 109

\* (hash * 31 + code) >>> 0
HashStep(hash, code) ==
    LET low == hash.lo * 31 + code
    IN  [hi |-> (hash.hi * 31 + low \div Half) % Half, lo |-> low % Half]

\* the hash loop over the characters of the seed
RECURSIVE HashFrom(_, _, _)
HashFrom(seed, i, hash) ==
    IF i > Len(seed) THEN hash
    ELSE HashFrom(seed, i + 1, HashStep(hash, CharCode(seed[i])))

SeedHash(seed) == HashFrom(seed, 1, [hi |-> 0, lo |-> 0])

\* the arguments of a call
PositionArgs(seed, index, totalNodes, center, width, height) ==
    [ seed |-> seed, index |-> index, totalNodes |-> totalNodes,
      center |-> center, width |-> width, height |-> height ]

\* 0xffffffff, and the paper id "paper-bbzl_Zm", whose hash it is
MaxHash == [hi |-> Half - 1, lo |-> Half - 1]
MaxHashSeed ==
    <<"p", "a", "p", "e", "r", "-", "b", "b", "z", "l", "_", "Z", "m">>

\* whole numbers too wide for one integer, as <<top, high, low>> in base 2^16
Wide(top, high, low) ==
    LET h == high + low \div Half
    IN  <<top + h \div Half, h % Half, low % Half>>
\* k * hash for a small factor k, and the sum of two wide numbers
Times(k, hash) == Wide(0, k * hash.hi, k * hash.lo)
Plus(m, n) == Wide(m[1] + n[1], m[2] + n[2], m[3] + n[3])
\* m <= n
AtMost(m, n) ==
    \/ m[1] < n[1]
    \/ m[1] = n[1] /\ m[2] < n[2]
    \/ m[1] = n[1] /\ m[2] = n[2] /\ m[3] <= n[3]

\* a ratio whose divisor is half the range of the hash
RatioOfHalfRange(hash) == [num |-> hash, den |-> [hi |-> Half \div 2 - 1, lo |-> Half - 1]]

\* distanceRatio = hash / 0xffffffff
distanceRatio(hash) == [num |-> hash, den |-> MaxHash]

\* maxSafeDistance = Math.min(viewportWidth, viewportHeight) * 0.35, in
\* hundredths
maxSafeDistance(a) == Min(a.width, a.height) * 35

\* distance = maxSafeDistance * 0.85 + distanceRatio * maxSafeDistance * 0.15,
\* the distance x and y are computed with (not the rounded one returned):
\* maxSafeDistance * num / den with num = 85 * r.den + 15 * r.num and
\* den = 100 * r.den
Distance(a) ==
    LET r == distanceRatio(SeedHash(a.seed))
    IN  [ maxSafe |-> maxSafeDistance(a),
          ratio |-> r,
          num |-> Plus(Times(85, r.den), Times(15, r.num)),
          den |-> Times(100, r.den) ]

\* a function that reads more than its arguments: how many calls were made
PositionByCallCount(a) ==
    [ angle |-> <<a.index + Len(positions), SeedHash(a.seed)>>,
      distance |-> <<Min(a.width, a.height), SeedHash(a.seed)>>,
      x |-> <<"cos", a.center, a.index + Len(positions),
              Min(a.width, a.height), SeedHash(a.seed)>>,
      y |-> <<"sin", a.center, a.index + Len(positions),
              Min(a.width, a.height), SeedHash(a.seed)>>,
      fromCentre |-> Distance(a) ]

\* the value returned: the angle is index * goldenAngle plus a variation
\* that is a function of the hash, the distance a function of the smaller
\* viewport dimension and the hash, x and y the centre plus cos and sin of
\* the angle times the distance
RadialPosition(a) ==
    [ angle |-> <<a.index, SeedHash(a.seed)>>,
      distance |-> <<Min(a.width, a.height), SeedHash(a.seed)>>,
      x |-> <<"cos", a.center, a.index, Min(a.width, a.height), SeedHash(a.seed)>>,
      y |-> <<"sin", a.center, a.index, Min(a.width, a.height), SeedHash(a.seed)>>,
      fromCentre |-> Distance(a) ]

Seeds == UNION {[1..n -> SeedChars] : n \in 0..MaxSeedLen} \cup {MaxHashSeed}
Centers == {[x |-> 0, y |-> 0], [x |-> 600, y |-> 400]}
Widths == {1200, 600}
Heights == {800}

InitPosition ==
    /\ PageInit
    /\ MoreAtRest
    /\ CountAtRest
    /\ AuthorsAtRest
    /\ DragAtRest
    /\ positionArgs \in {PositionArgs(seed, index, totalNodes, center, w, h) :
                            seed \in Seeds, index \in 0..MaxIndex,
                            totalNodes \in {1, MaxIndex + 1}, center \in Centers,
                            w \in Widths, h \in Heights}
    /\ positions = << >>
    /\ last = Idle

\* one more call with the same arguments
CallPosition ==
    /\ Len(positions) < 2
    /\ positions' = Append(positions, RadialPosition(positionArgs))
    /\ last' = Op("position", EmptyStr, NoGraph, NoGraph, << >>, NoGraph)
    /\ UNCHANGED <<pageVars, moreVars, countVars, authorsVars, dragVars, positionArgs>>

NextPosition == CallPosition

SpecPosition == InitPosition /\ [][NextPosition]_vars

----------------------------------------------------------------------------
(* Group dragging on its own.  The surface holds a researcher with two     *)
(* papers and a co-author, a second researcher that was expanded from one  *)
(* of the papers, with a paper of its own.  The pointer grabs a node,      *)
(* drags it and lets it go; the library moves the grabbed node before it   *)
(* tells the handlers.                                                     *)

\* nodeData.type of the elements of the surface
DragNodeType ==
    [R1 |-> "researcher", R2 |-> "researcher", P1 |-> "paper", P2 |-> "paper",
     P3 |-> "paper", C1 |-> "coauthor"]
DragNodeIds == DOMAIN DragNodeType
\* the edges of the surface, source and target
DragEdges ==
    {<<"R1", "P1">>, <<"R1", "P2">>, <<"R1", "C1">>, <<"R2", "P1">>,
     <<"R2", "P3">>}

\* node.connectedEdges().connectedNodes(): the ends of the edges at the node
connectedNodes(n) ==
    {m \in DragNodeIds :
        \E e \in DragEdges : (e[1] = n \/ e[2] = n) /\ (e[1] = m \/ e[2] = m)}
\* ... .filter(type === 'paper' && n.id() !== node.id())
connectedPapers(n) ==
    {m \in connectedNodes(n) : DragNodeType[m] = "paper" /\ m # n}

XY(x, y) == [x |-> x, y |-> y]
\* childPos - parentPos
Offset(childPos, parentPos) == XY(childPos.x - parentPos.x, childPos.y - parentPos.y)
\* a child put at the grabbed node itself
ChildAtParent(parentPos, offset) == parentPos
\* child.position({x: parentPos.x + offset.x, y: parentPos.y + offset.y})
ChildPosition(parentPos, offset) == XY(parentPos.x + offset.x, parentPos.y + offset.y)
\* event.originalEvent.ctrlKey || event.originalEvent.metaKey
isCtrlPressed(event) == event.ctrlKey \/ event.metaKey

\* the positions the elements may have when the pointer comes
DragLayouts ==
    { [R1 |-> XY(0, 0), R2 |-> XY(4, 0), P1 |-> XY(2, 1), P2 |-> XY(0, 2),
       P3 |-> XY(5, 1), C1 |-> XY(1, 0)],
      [R1 |-> XY(3, 3), R2 |-> XY(3, 3), P1 |-> XY(3, 3), P2 |-> XY(1, 3),
       P3 |-> XY(4, 4), C1 |-> XY(2, 2)] }
\* what the pointer moves the grabbed node by between two drag events
DragDeltas == {XY(1, 0), XY(0, 1), XY(0 - 1, 0 - 1)}
\* the modifier keys held during a drag event
DragKeys ==
    {PointerEvent(FALSE, FALSE, FALSE, FALSE), PointerEvent(TRUE, FALSE, FALSE, FALSE),
     PointerEvent(FALSE, TRUE, FALSE, FALSE), PointerEvent(FALSE, FALSE, TRUE, FALSE),
     PointerEvent(FALSE, FALSE, FALSE, TRUE), PointerEvent(TRUE, FALSE, TRUE, FALSE)}

InitDrag ==
    /\ PageInit
    /\ MoreAtRest
    /\ CountAtRest
    /\ AuthorsAtRest
    /\ PositionAtRest
    /\ nodePosition \in DragLayouts
    /\ grabbed = NoGrab
    /\ dragNodes = {}
    /\ initialPositions = << >>
    /\ originalEvent = NoEvent
    /\ positionAtGrab = << >>
    /\ positionBefore = << >>
    /\ nDrags = 0
    /\ last = Idle

\* cy.on('grab', 'node'): the pointer takes hold of a node
Grab(n) ==
    /\ grabbed = NoGrab
    /\ grabbed' = n
    /\ IF DragNodeType[n] = "researcher"
       THEN /\ dragNodes' = connectedPapers(n)
            /\ initialPositions' =
                   [child \in connectedPapers(n) |->
                       Offset(nodePosition[child], nodePosition[n])]
       ELSE UNCHANGED <<dragNodes, initialPositions>>
    /\ originalEvent' = NoEvent
    /\ positionAtGrab' = nodePosition
    /\ positionBefore' = nodePosition
    /\ UNCHANGED <<nodePosition, nDrags>>

\* the positions after the drag handler has run, the library having moved
\* the grabbed node to parentPos
AfterDrag(moved, node, event) ==
    IF DragNodeType[node] = "researcher" /\ dragNodes # {} /\ ~isCtrlPressed(event)
    THEN [id \in DOMAIN moved |->
             IF id \in dragNodes /\ id \in DOMAIN initialPositions
             THEN ChildPosition(moved[node], initialPositions[id])
             ELSE moved[id]]
    ELSE moved

\* cy.on('drag', 'node'): the pointer has moved the node it holds
Drag(delta, event) ==
    /\ grabbed # NoGrab
    /\ nDrags < MaxDrags
    /\ nDrags' = nDrags + 1
    /\ LET moved == [nodePosition EXCEPT
                        ![grabbed] = XY(@.x + delta.x, @.y + delta.y)]
       IN  nodePosition' = AfterDrag(moved, grabbed, event)
    /\ originalEvent' = event
    /\ positionBefore' = nodePosition
    /\ UNCHANGED <<grabbed, dragNodes, initialPositions, positionAtGrab>>

\* cy.on('free', 'node'): the pointer lets the node go
Free ==
    /\ grabbed # NoGrab
    /\ grabbed' = NoGrab
    /\ dragNodes' = {}
    /\ initialPositions' = << >>
    /\ UNCHANGED <<nodePosition, originalEvent, positionAtGrab, positionBefore,
                   nDrags>>

GrabNode == \E n \in DragNodeIds : Grab(n)
DragNode == \E delta \in DragDeltas, event \in DragKeys : Drag(delta, event)

NextDrag ==
    /\ GrabNode \/ DragNode \/ Free
    /\ UNCHANGED <<pageVars, moreVars, countVars, authorsVars, positionVars, last>>

SpecDrag == InitDrag /\ [][NextDrag]_vars

\* a researcher is held and a drag event has been handled since it was grabbed
ResearcherDragged ==
    /\ grabbed # NoGrab
    /\ DragNodeType[grabbed] = "researcher"
    /\ originalEvent.fired

\* every paper joined to the held researcher is where it was at grab,
\* seen from the researcher
RigidTranslation ==
    \A p \in connectedPapers(grabbed) :
        Offset(nodePosition[p], nodePosition[grabbed])
            = Offset(positionAtGrab[p], positionAtGrab[grabbed])

\* the last drag event moved no paper joined to the held researcher
NoPaperMoved ==
    \A p \in connectedPapers(grabbed) : nodePosition[p] = positionBefore[p]

\* no node without an edge to the held researcher has moved since grab
UnconnectedStay ==
    \A q \in DragNodeIds \ (connectedNodes(grabbed) \cup {grabbed}) :
        nodePosition[q] = positionAtGrab[q]

\* C23 (as the code has it): group dragging.  While a researcher is held,
\* after a drag event with neither Ctrl nor Meta held every paper joined to
\* it by an edge has the offset from it that it had at grab; after a drag
\* event with Ctrl or Meta held no such paper has been moved by the event;
\* Shift and Alt do not count; a node with no edge to the researcher is
\* never moved.
C23_GroupDragUnlessCtrlOrMeta ==
    ResearcherDragged =>
        /\ ~isCtrlPressed(originalEvent) => RigidTranslation
        /\ isCtrlPressed(originalEvent) => NoPaperMoved
        /\ UnconnectedStay

\* a researcher with papers has been dragged away with no key held
C23_Witness ==
    /\ ResearcherDragged
    /\ originalEvent = PointerEvent(FALSE, FALSE, FALSE, FALSE)
    /\ dragNodes # {}
    /\ nodePosition[grabbed] # positionAtGrab[grabbed]
    /\ \E p \in dragNodes : nodePosition[p] # positionAtGrab[p]

\* some modifier key is held
AnyModifierKey(event) ==
    event.ctrlKey \/ event.metaKey \/ event.shiftKey \/ event.altKey

\* C23 (as stated): group dragging.  While a researcher is held, every paper
\* joined to it keeps the offset it had at grab unless a modifier key is
\* held, in which case no joined paper is moved; a node with no edge to the
\* researcher is never moved.
C23_GroupDragUnlessModifierKey ==
    ResearcherDragged =>
        /\ ~AnyModifierKey(originalEvent) => RigidTranslation
        /\ AnyModifierKey(originalEvent) => NoPaperMoved
        /\ UnconnectedStay

----------------------------------------------------------------------------
(* The surface against the graph value *)

\* no swap callback of an update is still to run
TimersFired == timers.swap = << >>

\* C24: surface convergence.  Once an update has been applied and all of its
\* timers have fired, the ids of the node elements of the surface are the
\* node ids of the current graph and the ids of its edge elements are the
\* link keys of the current graph, whatever the transition was.
C24_SurfaceConverges ==
    (~unmounted /\ graphData # NoGraph /\ TimersFired) =>
        /\ {n.id : n \in cyNodes} = NodeIds(graphData)
        /\ {e.id : e \in cyEdges} = LinkKeys(graphData)

\* a placeholder element and the element of a real paper are at one position
PlaceholderUnderPaper ==
    \E p \in cyNodes, q \in cyNodes :
        /\ StartsWith(p.id, PlaceholderPrefix)
        /\ ~StartsWith(q.id, PlaceholderPrefix)
        /\ q.type = "paper"
        /\ cyPosition[p.id] = cyPosition[q.id]

\* C25: two-phase resolution.  Placeholders are removed and their
\* replacements added in one batch after the fade-out, removal first, so the
\* surface never holds a placeholder and the real paper that takes its slot
\* at the same position at the same time.
C25_NeverPlaceholderAndReplacement == ~PlaceholderUnderPaper

----------------------------------------------------------------------------
(* Placeholders and the pulse *)

\* the expansion has put its placeholders into a graph value and committed it
PlaceholdersAdded(x) == Len(PlaceholdersOf(x.gwp, x.name)) >= PlaceholderCount

\* C26: placeholders before the network.  An expansion adds its placeholders
\* when the user starts it, before any request it issues has resolved: every
\* expansion that awaits a response has added them.
C26_PlaceholdersBeforeNetwork ==
    \A e \in DOMAIN expansions : PlaceholdersAdded(expansions[e])

\* the interval callback of the pulse: the elements whose opacity its next
\* tick sets, those of the ids it was started with that are on the surface
PulseTicksOn == {id \in timers.pulse : \E n \in cyNodes : n.id = id}

\* the ids whose resolution has begun: their fade-out has started and the
\* swap that removes them is still to run
BeingResolved == UNION {timers.swap[i].removed : i \in DOMAIN timers.swap}

\* C27: pulse lifetime.  The pulse runs until it is stopped; it is stopped
\* when scenario B begins, before the fade-out, and from then on no tick of a
\* pulse sets the opacity of a node whose resolution has begun.
C27_NoPulseAfterResolutionBegan == PulseTicksOn \cap BeingResolved = {}

----------------------------------------------------------------------------
(* The scenarios of the update effect *)

SurfaceIds(cy) == {n.id : n \in cy}

\* an added id is a placeholder's; a removed id is a placeholder's
PlaceholderAdded(prev, data) ==
    \E id \in NodeIds(data) \ NodeIds(prev) : StartsWith(id, PlaceholderPrefix)
PlaceholderRemoved(prev, data) ==
    \E id \in NodeIds(prev) \ NodeIds(data) : StartsWith(id, PlaceholderPrefix)
\* no node id is added and none removed
NoStructuralChange(prev, data) == NodeIds(prev) = NodeIds(data)

\* the step ran the effect on an update of a graph that was shown
Updated == scenario' \notin {NotRun, "initial"}

\* C28: scenario classification.  Every update is handled as one of A, B, C,
\* D: A only when an added id is a placeholder's, B only when a removed id
\* is, C only when nodes are added or removed and no placeholder is among
\* them, D only when no node is added or removed; and in D nothing but node
\* data changes on the surface: no node or edge element is added or
\* removed, and no swap, fade-in or pulse is started (the swaps that wait
\* are as many as before; the nodes their closures hold may show new data).
C28_OneScenarioAndDataOnlyInD ==
    [][Updated =>
         /\ scenario' \in {"A", "B", "C", "D"}
         /\ scenario' = "A" => PlaceholderAdded(graphData, graphData')
         /\ scenario' = "B" => PlaceholderRemoved(graphData, graphData')
         /\ scenario' = "C" => /\ ~PlaceholderAdded(graphData, graphData')
                               /\ ~PlaceholderRemoved(graphData, graphData')
                               /\ ~NoStructuralChange(graphData, graphData')
         /\ scenario' = "D" => /\ NoStructuralChange(graphData, graphData')
                               /\ SurfaceIds(cyNodes') = SurfaceIds(cyNodes)
                               /\ cyEdges' = cyEdges
                               /\ Len(timers'.swap) = Len(timers.swap)
                               /\ timers'.fadeInDone = timers.fadeInDone
                               /\ timers'.pulse = timers.pulse]_vars

\* citation details have just been put on a paper that is shown: the update
\* was a data-only one, and the drawer's node carries them
C28_Witness ==
    /\ scenario = "D"
    /\ last.op = "citation"
    /\ cyNodes # {}

\* C29: data updates leave positions alone.  In every scenario, and in the
\* swap callback of scenario B, an element that is on the surface before and
\* after a step is at the same position after it, whatever data the step
\* gave it.
C29_DataUpdatesKeepPosition ==
    [][\A id \in DOMAIN cyPosition \cap DOMAIN cyPosition' :
           cyPosition'[id] = cyPosition[id]]_vars

\* a kept node's data was replaced by data that carries another x, y than
\* the element has
C29_Witness ==
    /\ scenario \in {"A", "B", "C", "D"}
    /\ \E n \in cyNodes : /\ getNodePosition(n) # NoPos
                          /\ getNodePosition(n) # cyPosition[n.id]

----------------------------------------------------------------------------
(* Graph values are replaced, not changed *)

\* every node object of the current graph that is still in the graph after
\* the step has the fields it had
NodeObjectsUntouched ==
    \A i \in DOMAIN graphData.nodes, j \in DOMAIN graphData'.nodes :
        graphData.nodes[i].obj = graphData'.nodes[j].obj
            => graphData'.nodes[j] = graphData.nodes[i]

\* C30: wholesale replacement.  The current graph is only ever replaced by a
\* fresh value: no step changes a field of a node, or of its metadata, of a
\* graph value that was committed as the current graph.
C30_CommittedGraphNeverModified == [][NodeObjectsUntouched]_vars

----------------------------------------------------------------------------
(* addResearcherPlaceholders called for several co-authors of one paper *)

\* the names of the co-authors of the source paper
SiblingName(i) == <<"S", Digit[i + 1]>>

\* the graphs of a viewed profile, and a paper of it as the source
SiblingGraphs ==
    {transformAuthorToGraph(AuthorPayload(MainName, articles), Len(articles), 1) :
        articles \in ProfileLists \ {<< >>}}

InitSiblings ==
    /\ PageInit
    /\ CountAtRest
    /\ AuthorsAtRest
    /\ PositionAtRest
    /\ DragAtRest
    /\ ViewsAtRest
    /\ IdsAtRest
    /\ siblingGraph \in SiblingGraphs
    /\ siblingSource \in {n.id : n \in {m \in Range(siblingGraph.nodes) : m.type = "paper"}}
    /\ siblings = << >>
    /\ last = Idle

\* the page's call for the next co-author clicked on the source paper
ExpandSibling(i) ==
    /\ Len(siblings) < MaxSiblings
    /\ \A j \in DOMAIN siblings : siblings[j] # SiblingName(i)
    /\ siblingGraph' = addResearcherPlaceholders(siblingGraph, SiblingName(i),
                           siblingSource, PlaceholderCount,
                           MaxObj(siblingGraph.nodes) + 1)
    /\ siblings' = Append(siblings, SiblingName(i))
    /\ UNCHANGED siblingSource

\* co-authors are taken in the order of the paper's author list
ExpandNextSibling ==
    \E i \in 1..MaxSiblings :
        /\ \A j \in 1..MaxSiblings : SiblingName(j) \in Range(siblings) => j < i
        /\ ExpandSibling(i)

NextSiblings ==
    /\ ExpandNextSibling
    /\ UNCHANGED <<pageVars, countVars, authorsVars, positionVars, dragVars,
                   viewVars, idVars, last>>

SpecSiblings == InitSiblings /\ [][NextSiblings]_vars

\* the position the researcher node of a name was given
SiblingPosition(name) ==
    siblingGraph.nodes[FirstIndex(siblingGraph.nodes, ResearcherId(name))].pos

\* the researchers linked to the source paper before any sibling was added
LinkedAtStart ==
    CountResearcherLinks(siblingGraph.links, siblingSource) - Len(siblings)

\* C31: sibling fan-out.  The j-th researcher expanded from one source paper
\* is placed at the angle of the paper rotated by PI / 3 for each researcher
\* linked to the paper before it and once more, and no two of these
\* researchers are given the same position.
C31_SiblingsFanOut ==
    /\ \A j \in DOMAIN siblings :
           SiblingPosition(siblings[j])
               = Spoke(siblingGraph.nodes[FirstIndex(siblingGraph.nodes,
                                                     siblingSource)].pos,
                       LinkedAtStart + j)
    /\ \A j, k \in DOMAIN siblings :
           j # k => SiblingPosition(siblings[j]) # SiblingPosition(siblings[k])

----------------------------------------------------------------------------
(* The distance of a placed node from the centre *)

\* 0.85 * R <= distance <= R for R = maxSafeDistance, as whole numbers:
\* 85 * den <= 100 * num and num <= den
InBand(d) ==
    /\ d.maxSafe >= 0
    /\ AtMost(Times(85, d.ratio.den), d.num)
    /\ AtMost(d.num, d.den)

\* the hash ratio is at most 1; it is less than 1
RatioAtMostOne(d) ==
    AtMost(Wide(0, d.ratio.num.hi, d.ratio.num.lo), Wide(0, d.ratio.den.hi, d.ratio.den.lo))
RatioBelowOne(d) == RatioAtMostOne(d) /\ d.ratio.num # d.ratio.den

\* C32 as the code has it: for every seed, index and total, the distance of
\* the placed node from the centre lies in [0.85 R, R] for R =
\* 0.35 min(width, height); the hash ratio used is in [0, 1], the hash being
\* a 32-bit unsigned value divided by 2^32 - 1.
C32_DistanceInBand ==
    \A i \in DOMAIN positions :
        InBand(positions[i].fromCentre) /\ RatioAtMostOne(positions[i].fromCentre)

\* a node has been placed with a seed whose hash is the largest one, at the
\* outer edge of the band
C32_Witness ==
    /\ Len(positions) >= 1
    /\ positionArgs.seed = MaxHashSeed
    /\ SeedHash(positionArgs.seed) = MaxHash
    /\ positions[1].fromCentre.num = positions[1].fromCentre.den

\* C32: distance band.  For every seed, index and total, the distance of the
\* placed node from the centre lies in [0.85 R, R] for R =
\* 0.35 min(width, height); the hash ratio used is in [0, 1), the hash being
\* a 32-bit unsigned value divided by 2^32.
C32_DistanceInBandRatioBelowOne ==
    \A i \in DOMAIN positions :
        InBand(positions[i].fromCentre) /\ RatioBelowOne(positions[i].fromCentre)

----------------------------------------------------------------------------
(* The page with requests that settle and timers that fire *)

\* the response to a request of expansion e arrives, with whatever outcome
ExpansionSettles(e) ==
    \/ SearchFound(e)
    \/ SearchNoMatch(e)
    \/ SearchFails(e)
    \/ \E articles \in ArticleLists : AuthorFetchOk(e, articles)
    \/ AuthorFetchFails(e)

\* the profile is shown, its first paper has been tapped and the request for
\* its citation details has failed: the drawer shows the paper's authors
InitGuard ==
    \E articles \in ProfileLists \ {<< >>} :
        LET sortedData == AuthorPayload(MainName, SortByYearDesc(articles))
            graph == transformAuthorToGraph(sortedData, PageSize, 1)
        IN  /\ graphData = graph
            /\ authorData = sortedData
            /\ visiblePapers = PageSize
            /\ loading = FALSE
            /\ error = ""
            /\ initFetch = FALSE
            /\ expansions = << >>
            /\ clicks = << >>
            /\ citationCache = << >>
            /\ selectedNode = graph.nodes[2]
            /\ isExpandingRef = FALSE
            /\ cyNodes = Range(graph.nodes)
            /\ cyEdges = InitialEdges(graph)
            /\ cyPosition = CyPositions(<< >>, {}, graph.nodes)
            /\ scenario = NotRun
            /\ timers = NoTimers
            /\ nextObj = MaxObj(graph.nodes) + 1
            /\ nExpansions = 0
            /\ nClicks = 1
            /\ resolved = {}
            /\ unmounted = FALSE
            /\ FunAtRest
            /\ nEvents = 0
            /\ last = Idle

\* the user clicks authors in the drawer; requests settle and timers fire
NextGuard ==
    \/ \E k \in 1..2 : AuthorClick(k)
    \/ \E e \in 1..MaxExpansions : ExpansionSettles(e)
    \/ DrawerClosed
    \/ SwapBatch
    \/ FadeInDone

\* the handler run of expansion e ends: the last request it awaits has got
\* its response, whatever the outcome, and the run leaves the waiting list
Answered(e) ==
    /\ e \in DOMAIN expansions
    /\ nEvents < MaxEvents
    /\ nEvents' = nEvents + 1
    /\ expansions' = Without(expansions, e)

\* every request gets its response and every timer its callback; the user
\* need not do anything
Fairness ==
    /\ \A e \in 1..MaxExpansions : WF_<<nEvents, expansions>>(Answered(e))
    /\ WF_vars(DrawerClosed)
    /\ WF_vars(SwapBatch)
    /\ WF_vars(FadeInDone)

SpecGuard == InitGuard /\ [][NextGuard]_vars /\ Fairness

\* C33: expansion always releases the guard.  Every accepted expansion
\* attempt, however it ends, is followed eventually by the in-flight flag
\* being false, without any further user action (in a run that has not used
\* up its events).
C33_GuardReleased ==
    isExpandingRef ~> (~isExpandingRef \/ nEvents = MaxEvents)

----------------------------------------------------------------------------
(* What a resolution touches *)

\* the node id is one of the placeholder ids made for this researcher
CreatedFor(id, name) ==
    \E i \in 0..(PlaceholderCount - 1) : id = PlaceholderId(name, i)

\* C34: resolution touches only its own researcher's placeholders.
\* Resolving researcher X replaces or removes only placeholder nodes that
\* were created for X: every other node of the graph it was given, X's own
\* node apart, is in the graph it returns, unchanged; so are the
\* placeholders of a researcher whose name is X's name, "-" and more.
C34_OnlyOwnPlaceholdersTouched ==
    last.op = "resolve" =>
        \A i \in DOMAIN last.before.nodes :
            LET n == last.before.nodes[i]
            IN  (~CreatedFor(n.id, last.name) /\ n.id # ResearcherId(last.name))
                    => \E j \in DOMAIN last.after.nodes : last.after.nodes[j] = n

----------------------------------------------------------------------------
(* The map of pending citation-detail requests on its own.  The profile is *)
(* shown; the user taps papers, and the requests succeed or fail.          *)

InitClicks ==
    \E articles \in ProfileLists \ {<< >>} :
        LET sortedData == AuthorPayload(MainName, SortByYearDesc(articles))
            graph == transformAuthorToGraph(sortedData, PageSize, 1)
        IN  /\ graphData = graph
            /\ authorData = sortedData
            /\ visiblePapers = PageSize
            /\ loading = FALSE
            /\ error = ""
            /\ initFetch = FALSE
            /\ expansions = << >>
            /\ clicks = << >>
            /\ citationCache = << >>
            /\ selectedNode = NoNode
            /\ isExpandingRef = FALSE
            /\ cyNodes = Range(graph.nodes)
            /\ cyEdges = InitialEdges(graph)
            /\ cyPosition = CyPositions(<< >>, {}, graph.nodes)
            /\ scenario = NotRun
            /\ timers = NoTimers
            /\ nextObj = MaxObj(graph.nodes) + 1
            /\ nExpansions = 0
            /\ nClicks = 0
            /\ resolved = {}
            /\ unmounted = FALSE
            /\ FunAtRest
            /\ nEvents = 0
            /\ last = Idle

NextClicks ==
    \/ \E id \in ElementIds : TapNodeWithin(id, MaxTaps)
    \/ \E c \in CitationIds, r \in CitationResponses : CitationOk(c, r)
    \/ \E c \in CitationIds : CitationFail(c)

SpecClicks == InitClicks /\ [][NextClicks]_vars

\* pendingRequests.has(citationId) is Pending(citationId): the entry is set
\* by the call that issues the request and every call that finds it waits
\* on the same promise

\* a call for the citation id starts to wait, or calls that waited return
Joins(c) == Len(ClicksOn(clicks', c)) > Len(ClicksOn(clicks, c))
Settles(c) == Len(ClicksOn(clicks', c)) < Len(ClicksOn(clicks, c))

\* C35: pending entries are released.  The request map holds an entry for a
\* key only while the key's request is unresolved, one request per entry;
\* when the request settles, by success or by failure, the entry is gone and
\* every call that waited on it has returned (no key with a cached response
\* has an entry); a later call for the key that has to wait issues a new
\* request.
C35_PendingEntriesReleased ==
    [][\A c \in CitationIds :
           /\ Pending(c) => Cardinality(CitationRequests(c)) = 1
           /\ Settles(c) => ~Pending(c)'
           /\ c \in DOMAIN citationCache' => ~Pending(c)'
           /\ (Joins(c) /\ ~Pending(c)) => Cardinality(CitationRequests(c)') = 1]_vars

\* a request for a paper's citation details has failed and the paper was
\* tapped again: a new request is in flight for the same key
C35_Witness ==
    /\ nClicks >= 2
    /\ Len(clicks) = 1
    /\ clicks[1].starter
    /\ clicks[1].cid \notin DOMAIN citationCache
----------------------------------------------------------------------------
(* app/citations/page.tsx: the viewed user changes while fetchAuthorData waits *)

\* the user ids the search parameter takes, and the author name the server
\* answers with for each
UserIds == {<<"u", Digit[i + 1]>> : i \in 1..3}
AuthorNameOf(user) == <<"N", user[2]>>

\* what a step of this part of the page leaves alone
OtherThanViews ==
    UNCHANGED <<pageVars, countVars, authorsVars, positionVars, dragVars,
                siblingVars, idVars, last>>

\* a pending fetchAuthorData call: the userId its closure captured
AuthorFetch(user, n) == [user |-> user, n |-> n]
AuthorFetches == {AuthorFetch(user, n) : user \in UserIds, n \in 1..MaxViews}

\* the first render: the effect has called fetchAuthorData for the user of
\* the URL
InitViews ==
    /\ PageInit
    /\ CountAtRest
    /\ AuthorsAtRest
    /\ PositionAtRest
    /\ DragAtRest
    /\ SiblingsAtRest
    /\ IdsAtRest
    /\ userId \in UserIds
    /\ authorFetches = {AuthorFetch(userId, 1)}
    /\ viewedGraph = NoGraph
    /\ viewedError = ""
    /\ nViews = 1
    /\ last = Idle

\* the search parameter changes: the effect on [userId, language] runs
\* fetchAuthorData, which clears the error and requests the new user; the
\* earlier call keeps waiting
UserChanges(user) ==
    /\ nViews < MaxViews
    /\ user # userId
    /\ userId' = user
    /\ nViews' = nViews + 1
    /\ authorFetches' = authorFetches \cup {AuthorFetch(user, nViews + 1)}
    /\ viewedError' = ""
    /\ UNCHANGED viewedGraph
    /\ OtherThanViews

\* a call's response arrives ok: the graph is built from it and set
ViewedFetchOk(f, articles) ==
    /\ f \in authorFetches
    /\ authorFetches' = authorFetches \ {f}
    /\ viewedGraph' = transformAuthorToGraph(
                          AuthorPayload(AuthorNameOf(f.user), SortByYearDesc(articles)),
                          visiblePapers, 1)
    /\ UNCHANGED <<userId, viewedError, nViews>>
    /\ OtherThanViews

\* a call's response is not ok, or the fetch rejects
ViewedFetchFail(f) ==
    /\ f \in authorFetches
    /\ authorFetches' = authorFetches \ {f}
    /\ viewedError' = "error"
    /\ UNCHANGED <<userId, viewedGraph, nViews>>
    /\ OtherThanViews

NextViews ==
    \/ \E user \in UserIds : UserChanges(user)
    \/ \E f \in AuthorFetches, articles \in ProfileLists : ViewedFetchOk(f, articles)
    \/ \E f \in AuthorFetches : ViewedFetchFail(f)

SpecViews == InitViews /\ [][NextViews]_vars

\* the user whose profile a graph was built from
GraphOf(user) == ResearcherId(AuthorNameOf(user))

\* C36: last requested profile wins: once no author fetch is unresolved and
\* a graph is shown without an error, that graph is the one built from the
\* most recently requested user id, whatever order the fetches resolved in.
C36_LastRequestedProfileWins ==
    (authorFetches = {} /\ viewedError = "" /\ viewedGraph # NoGraph)
        => viewedGraph.nodes[1].id = GraphOf(userId)
----------------------------------------------------------------------------
(* The pulse interval *)

\* the interval the component's ref holds is the only one the window runs
OnlyTheRefTicks ==
    IF timers.pulse = {} THEN timers.intervals = << >>
    ELSE timers.intervals = <<timers.pulse>>

\* C37: single pulse.  At any time at most one pulse interval is active:
\* a start while one runs stops the running one first, and after a stop no
\* interval made by an earlier start still ticks.
C37_SinglePulse ==
    /\ Len(timers.intervals) <= 1
    /\ OnlyTheRefTicks

\* a pulse was started over one researcher's placeholders while the
\* placeholders of a researcher expanded before are still on the surface
C37_Witness ==
    /\ timers.pulse # {}
    /\ \E n \in cyNodes : /\ StartsWith(n.id, PlaceholderPrefix)
                          /\ n.id \notin timers.pulse
----------------------------------------------------------------------------
(* The id of a paper, in each function that adds papers *)

\* an article as the payloads hold it: with or without citation_id, with or
\* without id, always with a title
IdArticles ==
    {[Article(cid, title, 1, << >>) EXCEPT !.id = id] :
        cid \in {EmptyStr, Str("c1")}, id \in {EmptyStr, Str("i1")},
        title \in {Str("T1"), Str("T2")}}

\* what a step of this part leaves alone
OtherThanIds ==
    UNCHANGED <<pageVars, countVars, authorsVars, positionVars, dragVars,
                siblingVars, viewVars, last>>

\* the profile's graph before any paper is in it
InitIds ==
    /\ PageInit
    /\ CountAtRest
    /\ AuthorsAtRest
    /\ PositionAtRest
    /\ DragAtRest
    /\ SiblingsAtRest
    /\ ViewsAtRest
    /\ idArticle \in IdArticles
    /\ idGraph = transformAuthorToGraph(AuthorPayload(MainName, << >>), PageSize, 1)
    /\ idCalls = << >>
    /\ last = Idle

\* the article is among those of the profile's first page: the graph is built
BuildWithArticle ==
    /\ Len(idCalls) < MaxIdCalls
    /\ idGraph' = transformAuthorToGraph(AuthorPayload(MainName, <<idArticle>>),
                                         PageSize, 1)
    /\ idCalls' = Append(idCalls, "build")
    /\ UNCHANGED idArticle
    /\ OtherThanIds

\* the article is among those a "load more" adds
LoadMoreWithArticle ==
    /\ Len(idCalls) < MaxIdCalls
    /\ idGraph' = addMorePapers(idGraph, ResearcherId(MainName), <<idArticle>>,
                                MaxObj(idGraph.nodes) + 1)
    /\ idCalls' = Append(idCalls, "loadMore")
    /\ UNCHANGED idArticle
    /\ OtherThanIds

\* a co-author of a paper of the graph is expanded and the article is the
\* first of the co-author's payload
ExpandWithArticle ==
    /\ Len(idCalls) < MaxIdCalls
    /\ \E source \in {n \in Range(idGraph.nodes) : n.type = "paper"} :
           LET waiting == addResearcherPlaceholders(idGraph, NameA, source.id, 1,
                                                    MaxObj(idGraph.nodes) + 1)
           IN  idGraph' = updateResearcherPapers(waiting,
                              AuthorPayload(NameA, <<idArticle>>), NameA,
                              MaxObj(waiting.nodes) + 1)
    /\ idCalls' = Append(idCalls, "expansion")
    /\ UNCHANGED idArticle
    /\ OtherThanIds

NextIds == BuildWithArticle \/ LoadMoreWithArticle \/ ExpandWithArticle

SpecIds == InitIds /\ [][NextIds]_vars

\* the ids under which the article is in the graph
IdsOfArticle == {n.id : n \in {m \in Range(idGraph.nodes) : m.type = "paper"}}

====
